---- MODULE Spec2Model ----
(***************************************************************************)
(* MapComponent of OutbreakX-NG-FE (src/src/app/login/login.ts, the class  *)
(* that starts at line 96) with the GeoJSON codec it uses                  *)
(* (src/src/app/shared/geojson.utils.ts).                                  *)
(*                                                                         *)
(* The component is single-threaded and event driven: every action below   *)
(* is one whole handler (a toolbar method, a Leaflet event listener or a   *)
(* routing-control callback) run to completion.  The methods of the class  *)
(* are operators from a component record to a component record, so that a  *)
(* handler that calls several methods in a row is their composition.       *)
(***************************************************************************)
EXTENDS Integers, Sequences, FiniteSets, TLC

VARIABLES
    activeDrawingMode,   \* string | null                      (login.ts:110)
    isDrawingRoute,      \* boolean                            (login.ts:111)
    isEditMode,          \* boolean                            (login.ts:112)
    isDeleteMode,        \* boolean                            (login.ts:113)
    currentDrawHandler,  \* reference to an L.Draw.* object, 0 = null (login.ts:119)
    drawHandlers,        \* the L.Draw.* objects: id -> [type, enabled]
    editHandler,         \* the L.EditToolbar.Edit object: [enabled]   (login.ts:120)
    deleteHandler,       \* the L.EditToolbar.Delete object: [enabled] (login.ts:121)
    drawnItems,          \* L.FeatureGroup: the layers, in insertion order (login.ts:100)
    routingControl,      \* reference to an L.Routing.Control, 0 = null (login.ts:101)
    controls,            \* the L.Routing.Control objects: id -> [onMap, pending]
    routeRequests,       \* route requests sent by the last handler: their waypoints
    sessions,            \* the clickHandler closures of drawRoute, in creation order
    mapMarkers,          \* the temporary waypoint markers that are on the map
    saveCalls,           \* calls of updateActiveProjectGeoJSON made by the last handler
    lastOp,              \* the handler that ran last, with its input
    map,                 \* the L.Map, null before initializeMap   (login.ts:99)
    viewCalls,           \* calls of map.fitBounds and map.setView made by the
                         \* last handler
    conversions,         \* the codec on its own: an input and what the
                         \* conversions applied in turn returned
    currentUser,         \* AuthService.currentUserValue: a uid | null
    activeProjectId,     \* ProjectService._activeProjectId: an id | null
    firestore,           \* the 'projects' documents: id -> their geojson field
    error,               \* ProjectService._error: a message | null
    pendingSaves,        \* the updateDoc calls of updateActiveProjectGeoJSON
                         \* that are not answered, oldest first
    settled,             \* the promises of updateActiveProjectGeoJSON that
                         \* settled in the last handler
    downloads,           \* the files the last handler made the browser download
    docs,                \* the documents of 'projects' as [id, ownerId], the one
                         \* updated last first (orderBy('updatedAt', 'desc'))
    created,             \* how many documents addDoc has made
    projects,            \* ProjectService._projects: [id, ownerId] records
    isLoading,           \* ProjectService._isLoading
    listeners,           \* the onSnapshot listeners, in the order they were made
    calls,               \* createProject, deleteProject and renameProject calls
                         \* that wait for the answer of the storage
    firstProjectCalls,   \* calls of createFirstProject made by the last handler
    shown                \* the id of the project activeProject$ gave last to the
                         \* subscriber of the map component, or null

\* the component
componentVars ==
    <<activeDrawingMode, isDrawingRoute, isEditMode, isDeleteMode,
      currentDrawHandler, drawHandlers, editHandler, deleteHandler,
      drawnItems, routingControl, controls, routeRequests, sessions,
      mapMarkers, saveCalls, lastOp, map, viewCalls>>

\* the services the component talks to
serviceVars ==
    <<currentUser, activeProjectId, firestore, error, pendingSaves, settled,
      downloads, docs, created, projects, isLoading, listeners, calls,
      firstProjectCalls, shown>>

vars == <<activeDrawingMode, isDrawingRoute, isEditMode, isDeleteMode,
          currentDrawHandler, drawHandlers, editHandler, deleteHandler,
          drawnItems, routingControl, controls, routeRequests, sessions,
          mapMarkers, saveCalls, lastOp, map, viewCalls, conversions,
          currentUser, activeProjectId, firestore, error, pendingSaves, settled,
          downloads, docs, created, projects, isLoading, listeners, calls,
          firstProjectCalls, shown>>

(***************************************************************************)
(* Bounds of the model.                                                    *)
(***************************************************************************)
\* drawRoute() calls in one behaviour (each creates one clickHandler closure)
MaxSessions == 2
\* layers in drawnItems from which on no layer is drawn and no route is added
\* (a load of a file or of a project is as long as its collection)
MaxLayers == 1
\* conversions applied in turn to one input of the codec
MaxConversions == 2
\* updateDoc calls that are not answered
MaxPendingSaves == 1
\* drawRoute() calls in one behaviour of the session synchronizer
MaxSyncSessions == 1

(***************************************************************************)
(* Values.                                                                 *)
(***************************************************************************)
\* JavaScript null, for the string-valued activeDrawingMode
Null == "null"
\* JavaScript null, for an object reference
NullRef == 0

DrawModes == {"marker", "polyline", "polygon", "circle"}

\* L.LatLng values; lat and lng differ in every point so that a missing
\* swap is visible
P1 == [lat |-> 50, lng |-> 10]
P2 == [lat |-> 51, lng |-> 8]
Mid == [lat |-> 52, lng |-> 9]
ClickPoints == {P1, P2}

Range(s) == {s[i] : i \in DOMAIN s}

\* the icon given to L.Draw.Marker
DrawMarkerIcon ==
    [iconUrl |-> "svg#FEB101", iconSize |-> <<25, 41>>, iconAnchor |-> <<12, 41>>,
     className |-> "custom-marker-icon"]

\* the shapeOptions given to the draw handlers
DrawShapeOptions(mode) ==
    CASE mode = "polygon" -> [color |-> "#1F75FE", fillColor |-> "rgba(31, 117, 254, 0.2)"]
      [] mode = "polyline" -> [color |-> "#660BC2", weight |-> 5]
      [] mode = "circle" -> [color |-> "#FEB101", fillColor |-> "rgba(254, 177, 1, 0.2)"]
      [] OTHER -> [icon |-> DrawMarkerIcon]

(***************************************************************************)
(* Leaflet layers.  A layer is a record                                    *)
(*   cls      the Leaflet class of the object                              *)
(*   latlngs  Marker, Circle: one LatLng; Polyline: a sequence of LatLng;  *)
(*            Polygon: a sequence of rings, each a sequence of LatLng      *)
(*   radius   Circle only                                                  *)
(*   options  layer.options                                                *)
(*   feature  layer.feature.properties.type, "" when the layer has none    *)
(*   layers   the children of a layer group                                *)
(***************************************************************************)
L_marker(latlng, options) ==
    [cls |-> "Marker", latlngs |-> latlng, radius |-> 0, options |-> options,
     feature |-> "", layers |-> <<>>]

L_circle(latlng, radius, options) ==
    [cls |-> "Circle", latlngs |-> latlng, radius |-> radius, options |-> options,
     feature |-> "", layers |-> <<>>]

L_polyline(latlngs, options) ==
    [cls |-> "Polyline", latlngs |-> latlngs, radius |-> 0, options |-> options,
     feature |-> "", layers |-> <<>>]

\* L.Polygon drops the last point of a ring that repeats the first one
OpenRing(ring) ==
    IF Len(ring) >= 2 /\ ring[1] = ring[Len(ring)]
    THEN SubSeq(ring, 1, Len(ring) - 1)
    ELSE ring

L_polygon(rings, options) ==
    [cls |-> "Polygon", latlngs |-> [r \in DOMAIN rings |-> OpenRing(rings[r])],
     radius |-> 0, options |-> options, feature |-> "", layers |-> <<>>]

\* L.geoJSON(feature) for a LineString feature: an L.GeoJSON layer group
\* (a FeatureGroup) that holds one L.Polyline built from the coordinates,
\* read back as (lat = pair[2], lng = pair[1]), with layer.feature set
L_geoJSON(feature) ==
    LET coords == feature.geometry.coordinates
        line == [L_polyline([i \in DOMAIN coords |->
                                [lat |-> coords[i][2], lng |-> coords[i][1]]],
                            [color |-> "default"])
                 EXCEPT !.feature = feature.properties.type]
    IN  [cls |-> "GeoJSON", latlngs |-> <<>>, radius |-> 0,
         options |-> [color |-> "default"], feature |-> "", layers |-> <<line>>]

\* the classes a layer is an instance of (Leaflet's class hierarchy)
ClassesOf(cls) ==
    CASE cls = "Marker" -> {"Marker", "Layer"}
      [] cls = "Circle" -> {"Circle", "CircleMarker", "Path", "Layer"}
      [] cls = "Polyline" -> {"Polyline", "Path", "Layer"}
      [] cls = "Polygon" -> {"Polygon", "Polyline", "Path", "Layer"}
      [] cls = "GeoJSON" -> {"GeoJSON", "FeatureGroup", "LayerGroup", "Layer"}
      [] OTHER -> {"Layer"}

InstanceOf(layer, cls) == cls \in ClassesOf(layer.cls)

(***************************************************************************)
(* The codec, geojson.utils.ts.                                            *)
(***************************************************************************)
\* what reading a missing property gives; no coordinate of the model is < 0
undefined == -1

\* the null a conversion returns
NullFeature == [type |-> "null"]

\* x || null for an icon option
OrNull(options, key) ==
    IF "icon" \in DOMAIN options /\ key \in DOMAIN options.icon
    THEN options.icon[key] ELSE Null

layerToGeoJSON(layer) ==
    IF InstanceOf(layer, "Marker") THEN
        [type |-> "Feature",
         properties |-> [type |-> "marker",
                         iconUrl |-> OrNull(layer.options, "iconUrl"),
                         iconSize |-> OrNull(layer.options, "iconSize"),
                         iconAnchor |-> OrNull(layer.options, "iconAnchor")],
         geometry |-> [type |-> "Point",
                       coordinates |-> <<layer.latlngs.lng, layer.latlngs.lat>>]]
    ELSE IF InstanceOf(layer, "Circle") THEN
        [type |-> "Feature",
         properties |-> [type |-> "circle", radius |-> layer.radius,
                         style |-> layer.options],
         geometry |-> [type |-> "Point",
                       coordinates |-> <<layer.latlngs.lng, layer.latlngs.lat>>]]
    ELSE IF InstanceOf(layer, "Polyline") THEN
        \* an L.Polygon is an L.Polyline too: its getLatLngs() is a list of
        \* rings, and a ring has no lng and no lat
        [type |-> "Feature",
         properties |-> [type |-> "polyline", style |-> layer.options],
         geometry |-> [type |-> "LineString",
                       coordinates |->
                          [i \in DOMAIN layer.latlngs |->
                             IF layer.cls = "Polygon"
                             THEN <<undefined, undefined>>
                             ELSE <<layer.latlngs[i].lng, layer.latlngs[i].lat>>]]]
    ELSE IF InstanceOf(layer, "Polygon") THEN
        [type |-> "Feature",
         properties |-> [type |-> "polygon", style |-> layer.options],
         geometry |-> [type |-> "Polygon",
                       coordinates |->
                          [r \in DOMAIN layer.latlngs |->
                             [i \in DOMAIN layer.latlngs[r] |->
                                <<layer.latlngs[r][i].lng, layer.latlngs[r][i].lat>>]]]]
    ELSE NullFeature

\* the null geoJSONToLayer returns
NullLayer == [cls |-> "null"]

\* L.latLng(lat, lng)
L_latLng(lat, lng) == [lat |-> lat, lng |-> lng]

\* the icon of L.Marker.prototype.options, which a marker made without an
\* icon option reads through its options: L.Icon.Default
IconDefault ==
    [iconUrl |-> "marker-icon.png", iconSize |-> <<25, 41>>, iconAnchor |-> <<12, 41>>]

\* the SVG data URL geoJSONToLayer falls back to (the one of DrawMarkerIcon)
DefaultIconUrl == "svg#FEB101"

\* properties[key] is truthy: the key is there and its value is neither
\* null nor the empty string (icon fields hold strings and arrays)
HasIconField(properties, key) ==
    /\ key \in DOMAIN properties
    /\ properties[key] # Null
    /\ properties[key] # ""

\* properties[key] || fallback
OrElse(properties, key, fallback) ==
    IF HasIconField(properties, key) THEN properties[key] ELSE fallback

\* properties['radius'] is truthy: there and not 0
HasRadius(properties) ==
    "radius" \in DOMAIN properties /\ properties.radius # 0

geoJSONToLayer(feature) ==
    IF "geometry" \notin DOMAIN feature THEN NullLayer
    ELSE
        LET properties == IF "properties" \in DOMAIN feature
                          THEN feature.properties ELSE <<>>
            style == IF "style" \in DOMAIN properties THEN properties.style ELSE <<>>
            subtype == IF "type" \in DOMAIN properties THEN properties.type ELSE ""
            coords == feature.geometry.coordinates
        IN  CASE feature.geometry.type = "Point" ->
                    LET latlng == L_latLng(coords[2], coords[1])
                    IN  IF subtype = "marker" THEN
                            L_marker(latlng,
                                [icon |->
                                   [iconUrl |-> OrElse(properties, "iconUrl", DefaultIconUrl),
                                    iconSize |-> OrElse(properties, "iconSize", <<25, 41>>),
                                    iconAnchor |-> OrElse(properties, "iconAnchor", <<12, 41>>),
                                    className |-> IF HasIconField(properties, "iconUrl")
                                                  THEN "" ELSE "custom-marker-icon"]])
                        ELSE IF subtype = "circle" /\ HasRadius(properties) THEN
                            \* { radius: properties['radius'], ...style }
                            L_circle(latlng, (style @@ [radius |-> properties.radius]).radius,
                                     style @@ [radius |-> properties.radius])
                        ELSE
                            L_marker(latlng, [icon |-> IconDefault])
              [] feature.geometry.type = "LineString" ->
                    L_polyline([i \in DOMAIN coords |-> L_latLng(coords[i][2], coords[i][1])],
                               style)
              [] feature.geometry.type = "Polygon" ->
                    L_polygon([r \in DOMAIN coords |->
                                 [i \in DOMAIN coords[r] |->
                                    L_latLng(coords[r][i][2], coords[r][i][1])]],
                              style)
              [] OTHER -> NullLayer

(***************************************************************************)
(* The component as a record: the fields of MapComponent together with the *)
(* Leaflet objects they refer to and the services injected into it.        *)
(***************************************************************************)
This ==
    [activeDrawingMode |-> activeDrawingMode, isDrawingRoute |-> isDrawingRoute,
     isEditMode |-> isEditMode, isDeleteMode |-> isDeleteMode,
     currentDrawHandler |-> currentDrawHandler, drawHandlers |-> drawHandlers,
     editHandler |-> editHandler, deleteHandler |-> deleteHandler,
     drawnItems |-> drawnItems, routingControl |-> routingControl,
     controls |-> controls, routeRequests |-> <<>>, sessions |-> sessions,
     mapMarkers |-> mapMarkers, saveCalls |-> <<>>, map |-> map, viewCalls |-> <<>>,
     currentUser |-> currentUser, activeProjectId |-> activeProjectId,
     firestore |-> firestore, error |-> error, pendingSaves |-> pendingSaves,
     settled |-> <<>>, downloads |-> <<>>, docs |-> docs, created |-> created,
     projects |-> projects, isLoading |-> isLoading, listeners |-> listeners,
     calls |-> calls, firstProjectCalls |-> <<>>, shown |-> shown,
     exception |-> Null]

\* map.setView([51.505, -0.09], 13), the view initializeMap gives the map
DefaultView ==
    [call |-> "setView", center |-> [lat |-> "51.505", lng |-> "-0.09"], zoom |-> 13]

\* the state right after ngAfterViewInit(): the map, the empty feature group
\* and the edit and delete handlers exist, no mode is active
InitialComponent ==
    [activeDrawingMode |-> Null, isDrawingRoute |-> FALSE,
     isEditMode |-> FALSE, isDeleteMode |-> FALSE,
     currentDrawHandler |-> NullRef, drawHandlers |-> <<>>,
     editHandler |-> [enabled |-> FALSE], deleteHandler |-> [enabled |-> FALSE],
     drawnItems |-> <<>>, routingControl |-> NullRef,
     controls |-> <<>>, routeRequests |-> <<>>, sessions |-> <<>>,
     mapMarkers |-> {}, saveCalls |-> <<>>, map |-> "map",
     viewCalls |-> <<>>]

(***************************************************************************)
(* Interaction modes.                                                      *)
(***************************************************************************)
\* the id of a new object of a heap: the least one that no object of it has
NewId(heap) ==
    CHOOSE h \in 1..(Cardinality(DOMAIN heap) + 1) :
        /\ h \notin DOMAIN heap
        /\ \A k \in 1..(h - 1) : k \in DOMAIN heap

\* Objects that can never act again are dropped from the heaps, and their ids
\* are free again: an L.Draw.* object that is disabled and that nothing refers
\* to, an L.Routing.Control that is off the map, answered and that nothing
\* refers to
Collect(c) ==
    LET liveHandlers == {h \in DOMAIN c.drawHandlers :
                            c.drawHandlers[h].enabled \/ h = c.currentDrawHandler}
        liveControls == {k \in DOMAIN c.controls :
                            \/ c.controls[k].pending
                            \/ c.controls[k].onMap
                            \/ k = c.routingControl}
    IN  [c EXCEPT !.drawHandlers = [h \in liveHandlers |-> c.drawHandlers[h]],
                  !.controls = [k \in liveControls |-> c.controls[k]]]

deactivateDrawingMode(c) ==
    LET c1 == IF c.currentDrawHandler # NullRef
              THEN [c EXCEPT !.drawHandlers[c.currentDrawHandler].enabled = FALSE,
                             !.currentDrawHandler = NullRef]
              ELSE c
    IN  [c1 EXCEPT !.activeDrawingMode = Null]

deactivateEditMode(c) ==
    IF c.isEditMode
    THEN [c EXCEPT !.editHandler.enabled = FALSE, !.isEditMode = FALSE]
    ELSE c

deactivateDeleteMode(c) ==
    IF c.isDeleteMode
    THEN [c EXCEPT !.deleteHandler.enabled = FALSE, !.isDeleteMode = FALSE]
    ELSE c

\* toggleDrawingMode(tool), toggleEditMode() (tool = "edit") and
\* toggleDeleteMode() (tool = "delete") called before ngAfterViewInit: map
\* is undefined, editHandler, deleteHandler and currentDrawHandler are
\* null.  The method runs up to the first statement that reads a property
\* of undefined or null and throws a TypeError there: editHandler.disable()
\* or deleteHandler.disable() when that mode's flag is set, else
\* new L.Draw.*(map, ...), editHandler.enable() or deleteHandler.enable()
\* right after the flag of the tool was set.
withoutMap(c, tool) ==
    LET throw(d) == [d EXCEPT !.exception = "TypeError"]
        c1 == [c EXCEPT !.activeDrawingMode = Null]   \* deactivateDrawingMode
    IN  IF tool \notin {"edit", "delete"} /\ c.activeDrawingMode = tool THEN c1
        ELSE IF tool = "edit" /\ c.isEditMode THEN throw(c)
        ELSE IF tool = "delete" /\ c.isDeleteMode THEN throw(c)
        ELSE IF c.isEditMode \/ c.isDeleteMode THEN throw(c1)
        ELSE IF tool = "edit" THEN throw([c1 EXCEPT !.isEditMode = TRUE])
        ELSE IF tool = "delete" THEN throw([c1 EXCEPT !.isDeleteMode = TRUE])
        ELSE IF tool \in DrawModes THEN throw([c1 EXCEPT !.activeDrawingMode = tool])
        ELSE [c1 EXCEPT !.activeDrawingMode = tool]

\* toggleDrawingMode without the branch that cancels the active mode: the
\* mode is entered again
toggleDrawingMode_noCancel(c, mode) ==
    LET c1 == deactivateDeleteMode(deactivateEditMode(deactivateDrawingMode(c)))
        c2 == [c1 EXCEPT !.activeDrawingMode = mode]
        h  == NewId(Collect(c2).drawHandlers)
    IN  [c2 EXCEPT !.drawHandlers =
                       [k \in DOMAIN Collect(c2).drawHandlers \cup {h} |->
                          IF k = h THEN [type |-> mode, enabled |-> TRUE]
                          ELSE c2.drawHandlers[k]],
                   !.currentDrawHandler = h]

toggleDrawingMode(c, mode) ==
    IF c.map = Null THEN withoutMap(c, mode)
    ELSE IF c.activeDrawingMode = mode THEN deactivateDrawingMode(c)
    ELSE
        LET c1 == deactivateDeleteMode(deactivateEditMode(deactivateDrawingMode(c)))
            c2 == [c1 EXCEPT !.activeDrawingMode = mode]
            h  == NewId(Collect(c2).drawHandlers)
            \* the switch: a new L.Draw.Marker / Polyline / Polygon / Circle
            c3 == IF mode \in DrawModes
                  THEN [c2 EXCEPT
                          !.drawHandlers =
                              [k \in DOMAIN Collect(c2).drawHandlers \cup {h} |->
                                 IF k = h THEN [type |-> mode, enabled |-> FALSE]
                                 ELSE c2.drawHandlers[k]],
                          !.currentDrawHandler = h]
                  ELSE c2
        IN  IF c3.currentDrawHandler # NullRef
            THEN [c3 EXCEPT !.drawHandlers[c3.currentDrawHandler].enabled = TRUE]
            ELSE c3

\* toggleEditMode that leaves delete mode alone
toggleEditMode_keepsDelete(c) ==
    IF c.isEditMode THEN deactivateEditMode(c)
    ELSE [deactivateDrawingMode(c) EXCEPT !.isEditMode = TRUE,
                                          !.editHandler.enabled = TRUE]

toggleEditMode(c) ==
    IF c.map = Null THEN withoutMap(c, "edit")
    ELSE IF c.isEditMode THEN deactivateEditMode(c)
    ELSE
        LET c1 == deactivateDeleteMode(deactivateDrawingMode(c))
        IN  [c1 EXCEPT !.isEditMode = TRUE, !.editHandler.enabled = TRUE]

toggleDeleteMode(c) ==
    IF c.map = Null THEN withoutMap(c, "delete")
    ELSE IF c.isDeleteMode THEN deactivateDeleteMode(c)
    ELSE
        LET c1 == deactivateEditMode(deactivateDrawingMode(c))
        IN  [c1 EXCEPT !.isDeleteMode = TRUE, !.deleteHandler.enabled = TRUE]

(***************************************************************************)
(* Saving.                                                                 *)
(***************************************************************************)
\* features.push(feature) for every layer whose conversion is not null
CollectFeatures(layers) ==
    LET all == [i \in DOMAIN layers |-> layerToGeoJSON(layers[i])]
    IN  SelectSeq(all, LAMBDA f : f.type # "null")

\* A promise of updateActiveProjectGeoJSON that has settled:
\*   outcome   "resolved" or "rejected"
\*   written   whether the document of the project was written
\*   observed  whether the caller awaits the promise or has given it a
\*             then or a catch callback
Settled(outcome, written) ==
    [outcome |-> outcome, written |-> written, observed |-> FALSE]

\* ProjectService.updateActiveProjectGeoJSON(geojson), up to its await
updateActiveProjectGeoJSON(c, geojson) ==
    IF c.activeProjectId = Null
    THEN \* console.warn and return: the promise is resolved
         [c EXCEPT !.settled = Append(@, Settled("resolved", FALSE))]
    ELSE IF c.currentUser = Null
    THEN \* throw new Error(...): the promise is rejected
         [c EXCEPT !.settled = Append(@, Settled("rejected", FALSE))]
    ELSE [c EXCEPT !.pendingSaves =
                       Append(@, [id |-> c.activeProjectId, geojson |-> geojson])]

updateGeoJSON(c) ==
    LET geojson == [type |-> "FeatureCollection",
                    features |-> CollectFeatures(c.drawnItems)]
    \* this.currentProjectGeoJSON, which nothing reads before it is next
    \* assigned, is what is passed to updateActiveProjectGeoJSON; the
    \* promise the call returns is dropped
    IN  updateActiveProjectGeoJSON([c EXCEPT !.saveCalls = Append(@, geojson)], geojson)

(***************************************************************************)
(* Routes.  A control is [onMap, pending]: pending while the route request *)
(* it sent when it was added to the map is not answered.  A session is one *)
(* clickHandler closure: [waypoints, tempMarkers, attached], attached      *)
(* while the closure is a click listener of the map.  A temporary marker   *)
(* is named by its session and its place in the session's list.            *)
(***************************************************************************)
\* this.map.removeControl(control)
removeControl(c, control) == [c EXCEPT !.controls[control].onMap = FALSE]

createRoutingControl(c, waypoints) ==
    LET c1 == IF c.routingControl # NullRef
              THEN removeControl(c, c.routingControl)
              ELSE c
        \* L.Routing.control({waypoints, ...}).addTo(this.map) requests the
        \* route between the waypoints
        control == [onMap |-> TRUE, pending |-> TRUE]
        \* the old control is no longer referred to once routingControl is assigned
        old == Collect([c1 EXCEPT !.routingControl = NullRef]).controls
        k == NewId(old)
    IN  [c1 EXCEPT !.controls = [j \in DOMAIN old \cup {k} |->
                                   IF j = k THEN control ELSE old[j]],
                   !.routingControl = k,
                   !.routeRequests = Append(@, waypoints)]

\* clickHandler without this.map.off('click', clickHandler)
clickHandler_staysAttached(c, s, latlng) ==
    LET waypoints == Append(c.sessions[s].waypoints, latlng)
        tempMarker == <<s, Len(c.sessions[s].tempMarkers) + 1>>
        c1 == [c EXCEPT !.sessions[s].waypoints = waypoints,
                        !.sessions[s].tempMarkers = Append(@, tempMarker),
                        !.mapMarkers = @ \cup {tempMarker}]
    IN  IF Len(waypoints) = 2
        THEN LET c2 == [c1 EXCEPT !.isDrawingRoute = FALSE]
                 c3 == createRoutingControl(c2, waypoints)
             IN  [c3 EXCEPT !.mapMarkers = @ \ Range(c3.sessions[s].tempMarkers),
                            !.sessions[s].tempMarkers = <<>>,
                            !.sessions[s].waypoints = <<>>]
        ELSE c1

\* the closure clickHandler of session s, called with a click at latlng
clickHandler(c, s, latlng) ==
    LET waypoints == Append(c.sessions[s].waypoints, latlng)
        tempMarker == <<s, Len(c.sessions[s].tempMarkers) + 1>>
        c1 == [c EXCEPT !.sessions[s].waypoints = waypoints,
                        !.sessions[s].tempMarkers = Append(@, tempMarker),
                        !.mapMarkers = @ \cup {tempMarker}]
    IN  IF Len(waypoints) = 2
        THEN LET c2 == [c1 EXCEPT !.sessions[s].attached = FALSE,
                                  !.isDrawingRoute = FALSE]
                 c3 == createRoutingControl(c2, waypoints)
             IN  [c3 EXCEPT !.mapMarkers = @ \ Range(c3.sessions[s].tempMarkers),
                            !.sessions[s].tempMarkers = <<>>,
                            !.sessions[s].waypoints = <<>>]
        ELSE c1

\* drawRoute that forgets to leave edit mode
drawRoute_keepsEdit(c) ==
    LET c1 == deactivateDeleteMode(deactivateDrawingMode(c))
        c2 == [c1 EXCEPT !.isDrawingRoute = TRUE]
        c3 == IF c2.routingControl # NullRef
              THEN [removeControl(c2, c2.routingControl) EXCEPT !.routingControl = NullRef]
              ELSE c2
        session == [waypoints |-> <<>>, tempMarkers |-> <<>>, attached |-> TRUE]
    IN  [c3 EXCEPT !.sessions = Append(@, session)]

drawRoute(c) ==
    LET c1 == deactivateDeleteMode(deactivateEditMode(deactivateDrawingMode(c)))
        c2 == [c1 EXCEPT !.isDrawingRoute = TRUE]
        c3 == IF c2.routingControl # NullRef
              THEN [removeControl(c2, c2.routingControl) EXCEPT !.routingControl = NullRef]
              ELSE c2
        session == [waypoints |-> <<>>, tempMarkers |-> <<>>, attached |-> TRUE]
    IN  [c3 EXCEPT !.sessions = Append(@, session)]

\* the map fires 'click': the listeners attached when the event starts are
\* called in the order they were attached
RECURSIVE fireClick(_, _, _)
fireClick(c, s, latlng) ==
    IF s > Len(c.sessions) THEN c
    ELSE fireClick(IF c.sessions[s].attached THEN clickHandler(c, s, latlng) ELSE c,
                   s + 1, latlng)

\* the GeoJSON feature the routesfound listener builds from routes[0].coordinates
routeFeature(routeLine) ==
    [type |-> "Feature",
     properties |-> [type |-> "route", name |-> "Generated Route",
                     style |-> [color |-> "#660BC2", weight |-> 5,
                                opacity |-> "0.7"]],
     geometry |-> [type |-> "LineString",
                   coordinates |-> [i \in DOMAIN routeLine |->
                                      <<routeLine[i].lng, routeLine[i].lat>>]]]

\* the routesfound listener
onRoutesFound(c, routes) ==
    IF Len(routes) > 0
    THEN LET routeLayer == L_geoJSON(routeFeature(routes[1]))
         IN  updateGeoJSON([c EXCEPT !.drawnItems = Append(@, routeLayer)])
    ELSE c

\* the routingerror listener
onRoutingError(c) ==
    IF c.routingControl # NullRef
    THEN [removeControl(c, c.routingControl) EXCEPT !.routingControl = NullRef]
    ELSE c

(***************************************************************************)
(* The listeners of the draw events.                                       *)
(***************************************************************************)
\* the CREATED listener without its last call: the mode stays on
onCreated_keepsMode(c, layer) ==
    updateGeoJSON([c EXCEPT !.drawnItems = Append(@, layer)])

onCreated(c, layer) ==
    deactivateDrawingMode(updateGeoJSON([c EXCEPT !.drawnItems = Append(@, layer)]))

\* an EDITED listener that ends edit mode the way CREATED ends drawing
onEdited_oneShot(c) == deactivateEditMode(updateGeoJSON(c))

onEdited(c) == updateGeoJSON(c)

onDeleted(c) == updateGeoJSON(c)

(***************************************************************************)
(* What the user and the libraries can do.                                 *)
(***************************************************************************)
\* the layer an L.Draw handler of the given type hands to CREATED
DrawnLayers(type) ==
    CASE type = "marker" ->
            {L_marker(P1, DrawShapeOptions(type))}
      [] type = "circle" ->
            \* new L.Circle(center, radius, shapeOptions) keeps the radius in
            \* its options too
            {L_circle(P1, r, DrawShapeOptions(type) @@ [radius |-> r]) : r \in {5}}
      [] type = "polyline" ->
            {L_polyline(<<P1, P2>>, DrawShapeOptions(type))}
      [] type = "polygon" ->
            {L_polygon(<<(<<P1, Mid, P2>>)>>, DrawShapeOptions(type))}
      [] OTHER -> {}

\* drawnItems.removeLayer(layer), by the delete handler
removeLayer(layers, i) ==
    [k \in 1..(Len(layers) - 1) |-> IF k < i THEN layers[k] ELSE layers[k + 1]]

\* what the routing provider can answer: one route, as its coordinates (the
\* points of the road network it found), or no route at all
Routes == {<<>>, <<(<<P1, Mid, P2>>)>>}

\* the mode that is active: a drawing mode, "edit", "delete" or none
ModeOf(drawing, edit, delete) ==
    IF drawing # Null THEN drawing
    ELSE IF edit THEN "edit" ELSE IF delete THEN "delete" ELSE Null

\* The label of a handler run:
\*   op      the handler
\*   arg     toggleDrawingMode: the mode asked for; click: the point clicked;
\*           routesfound: "route" when the answer holds a route and "noroute"
\*           when it holds none
\*   before  the mode that was active when the handler was called
\*   first   toggleDrawingMode(m) called right after toggleDrawingMode(m):
\*           whether m was the active mode before the first of the two calls
NoArg == "-"
Op(name, arg) ==
    [op |-> name, arg |-> arg,
     before |-> ModeOf(activeDrawingMode, isEditMode, isDeleteMode),
     first |-> IF name = "toggleDrawingMode" /\ lastOp.op = name /\ lastOp.arg = arg
               THEN (IF lastOp.before = arg THEN "active" ELSE "inactive")
               ELSE NoArg]

\* the handler ran to completion and left the component as c
Commit(c, op) ==
    LET d == Collect(c)
    IN  /\ activeDrawingMode' = d.activeDrawingMode
        /\ isDrawingRoute' = d.isDrawingRoute
        /\ isEditMode' = d.isEditMode
        /\ isDeleteMode' = d.isDeleteMode
        /\ currentDrawHandler' = d.currentDrawHandler
        /\ drawHandlers' = d.drawHandlers
        /\ editHandler' = d.editHandler
        /\ deleteHandler' = d.deleteHandler
        /\ drawnItems' = d.drawnItems
        /\ routingControl' = d.routingControl
        /\ controls' = d.controls
        /\ routeRequests' = d.routeRequests
        /\ sessions' = d.sessions
        /\ mapMarkers' = d.mapMarkers
        /\ saveCalls' = d.saveCalls
        /\ lastOp' = op
        /\ map' = d.map
        /\ viewCalls' = d.viewCalls
        /\ conversions' = conversions
        /\ currentUser' = d.currentUser
        /\ activeProjectId' = d.activeProjectId
        /\ firestore' = d.firestore
        /\ error' = d.error
        /\ pendingSaves' = d.pendingSaves
        /\ settled' = d.settled
        /\ downloads' = d.downloads
        /\ docs' = d.docs
        /\ created' = d.created
        /\ projects' = d.projects
        /\ isLoading' = d.isLoading
        /\ listeners' = d.listeners
        /\ calls' = d.calls
        /\ firstProjectCalls' = d.firstProjectCalls
        /\ shown' = d.shown

\* the component starts as the record c, op being what ran last
ComponentStartsAs(c, op) ==
    /\ activeDrawingMode = c.activeDrawingMode
    /\ isDrawingRoute = c.isDrawingRoute
    /\ isEditMode = c.isEditMode
    /\ isDeleteMode = c.isDeleteMode
    /\ currentDrawHandler = c.currentDrawHandler
    /\ drawHandlers = c.drawHandlers
    /\ editHandler = c.editHandler
    /\ deleteHandler = c.deleteHandler
    /\ drawnItems = c.drawnItems
    /\ routingControl = c.routingControl
    /\ controls = c.controls
    /\ routeRequests = c.routeRequests
    /\ sessions = c.sessions
    /\ mapMarkers = c.mapMarkers
    /\ saveCalls = c.saveCalls
    /\ map = c.map
    /\ viewCalls = c.viewCalls
    /\ lastOp = [op |-> op, arg |-> NoArg, before |-> Null,
                 first |-> NoArg]

ComponentInit == ComponentStartsAs(InitialComponent, "ngAfterViewInit")

\* the services before anybody has signed in: no user, no project
ServiceInit ==
    /\ currentUser = Null
    /\ activeProjectId = Null
    /\ firestore = <<>>
    /\ error = Null
    /\ pendingSaves = <<>>
    /\ settled = <<>>
    /\ downloads = <<>>
    /\ docs = <<>>
    /\ created = 0
    /\ projects = <<>>
    /\ isLoading = FALSE
    /\ listeners = <<>>
    /\ calls = <<>>
    /\ firstProjectCalls = <<>>
    /\ shown = Null

Init == ComponentInit /\ conversions = <<>> /\ ServiceInit

\* the toolbar buttons
ToggleDrawingMode(mode) ==
    Commit(toggleDrawingMode(This, mode), Op("toggleDrawingMode", mode))

ToggleEditMode == Commit(toggleEditMode(This), Op("toggleEditMode", NoArg))

ToggleDeleteMode == Commit(toggleDeleteMode(This), Op("toggleDeleteMode", NoArg))

DrawRoute ==
    /\ Len(sessions) < MaxSessions
    /\ Commit(drawRoute(This), Op("drawRoute", NoArg))

\* the user clicks the map while it has click listeners
MapClick(latlng) ==
    /\ \E s \in DOMAIN sessions : sessions[s].attached
    /\ Commit(fireClick(This, 1, latlng), Op("click", latlng))

\* the enabled draw handler h finishes a shape: it fires CREATED with the
\* new layer and then disables itself
Created(h, layer) ==
    /\ h \in DOMAIN drawHandlers
    /\ drawHandlers[h].enabled
    /\ layer \in DrawnLayers(drawHandlers[h].type)
    /\ Len(drawnItems) < MaxLayers
    /\ LET c == onCreated(This, layer)
       IN  Commit([c EXCEPT !.drawHandlers[h].enabled = FALSE], Op("CREATED", NoArg))

\* the edit handler saves its edits: it fires EDITED
Edited ==
    /\ editHandler.enabled
    /\ Commit(onEdited(This), Op("EDITED", NoArg))

\* the enabled delete handler removes a layer from its feature group
DeleteLayer(i) ==
    /\ deleteHandler.enabled
    /\ i \in DOMAIN drawnItems
    /\ Commit([This EXCEPT !.drawnItems = removeLayer(@, i)], Op("deleteLayer", NoArg))

\* the delete handler saves its removals: it fires DELETED
Deleted ==
    /\ deleteHandler.enabled
    /\ Commit(onDeleted(This), Op("DELETED", NoArg))

\* the route request of control k is answered with routes: the control
\* fires routesfound, whether or not it is still on the map
RoutesFound(k, routes) ==
    /\ k \in DOMAIN controls
    /\ controls[k].pending
    /\ routes \in Routes
    /\ Len(drawnItems) < MaxLayers
    /\ Commit(onRoutesFound([This EXCEPT !.controls[k].pending = FALSE], routes),
              Op("routesfound", IF Len(routes) > 0 THEN "route" ELSE "noroute"))

\* the route request of control k fails: the control fires routingerror
RoutingError(k) ==
    /\ k \in DOMAIN controls
    /\ controls[k].pending
    /\ Commit(onRoutingError([This EXCEPT !.controls[k].pending = FALSE]),
              Op("routingerror", NoArg))

Next ==
    \/ \E mode \in DrawModes : ToggleDrawingMode(mode)
    \/ ToggleEditMode
    \/ ToggleDeleteMode
    \/ DrawRoute
    \/ \E latlng \in ClickPoints : MapClick(latlng)
    \/ \E h \in DOMAIN drawHandlers :
          \E layer \in DrawnLayers(drawHandlers[h].type) : Created(h, layer)
    \/ Edited
    \/ \E i \in DOMAIN drawnItems : DeleteLayer(i)
    \/ Deleted
    \/ \E k \in DOMAIN controls : \E routes \in Routes : RoutesFound(k, routes)
    \/ \E k \in DOMAIN controls : RoutingError(k)

Spec == Init /\ [][Next]_vars

(***************************************************************************)
(* The codec on its own: an input, a feature or a layer, and the           *)
(* conversions applied to it in turn, geoJSONToLayer to a feature and      *)
(* layerToGeoJSON to a layer.                                              *)
(***************************************************************************)
\* a position of GeoJSON: [lng, lat]
Position(latlng) == <<latlng.lng, latlng.lat>>

Feature(geometryType, coordinates, properties) ==
    [type |-> "Feature", properties |-> properties,
     geometry |-> [type |-> geometryType, coordinates |-> coordinates]]

\* properties.style of the features
Styles == {[color |-> "#660BC2", weight |-> 5],
           [color |-> "#1F75FE", fillColor |-> "rgba(31, 117, 254, 0.2)"]}

\* properties of the Point features: markers with an icon, with null icon
\* fields and with none, circles with a radius (0 too) and with none, no
\* subtype, an unknown subtype
PointProperties ==
    {[type |-> "marker", iconUrl |-> "pin.png", iconSize |-> <<30, 30>>,
      iconAnchor |-> <<15, 30>>],
     [type |-> "marker", iconUrl |-> Null, iconSize |-> Null, iconAnchor |-> Null],
     [type |-> "marker"],
     [type |-> "circle"],
     [type |-> "label"],
     <<>>}
    \cup {[type |-> "circle", radius |-> r, style |-> st] : r \in {0, 5}, st \in Styles}

Paths == {<<P1, P2>>, <<P1, Mid, P2>>}

\* the rings of a polygon: an outer boundary, or one with a hole
RingLists == {<<(<<P1, Mid, P2, P1>>)>>,
              <<(<<P1, Mid, P2, P1>>), (<<Mid, P2, P1, Mid>>)>>}

Positions(path) == [i \in DOMAIN path |-> Position(path[i])]

\* the features geoJSONToLayer is given, a project's or an imported
\* file's, by geometry type
PointFeatures ==
    {Feature("Point", Position(p), pr) : p \in ClickPoints, pr \in PointProperties}

LineStringFeatures ==
    {Feature("LineString", Positions(path), [type |-> "polyline", style |-> st]) :
        path \in Paths, st \in Styles}
    \cup {Feature("LineString", Positions(path),
                   [type |-> "route", name |-> "Generated Route", style |-> st]) :
             path \in Paths, st \in Styles}

PolygonFeatures ==
    {Feature("Polygon", [r \in DOMAIN rings |-> Positions(rings[r])],
             [type |-> "polygon", style |-> st]) :
        rings \in RingLists, st \in Styles}

\* a geometry type the codec does not know, and a feature without geometry
OtherFeatures ==
    {Feature("MultiPoint", <<Position(P1), Position(P2)>>, <<>>),
     [type |-> "Feature", properties |-> <<>>]}

\* the layers the draw handlers make, by class
DrawnMarkers == {L_marker(p, DrawShapeOptions("marker")) : p \in ClickPoints}

DrawnCircles ==
    {L_circle(p, r, DrawShapeOptions("circle") @@ [radius |-> r]) :
        p \in ClickPoints, r \in {5, 7}}

DrawnPolylines == {L_polyline(path, DrawShapeOptions("polyline")) : path \in Paths}

DrawnPolygons ==
    {L_polygon(<<ring>>, DrawShapeOptions("polygon")) :
        ring \in {<<P1, Mid, P2>>, <<P2, Mid, P1>>}}

IsFeature(value) == "type" \in DOMAIN value /\ value.type = "Feature"

IsLayer(value) == "cls" \in DOMAIN value /\ value.cls # "null"

\* the TypeError of reading latlng.lng of an undefined latlng
TypeError == [type |-> "TypeError"]

\* L.latLng(undefined, undefined) is undefined: a vertex that is no LatLng
HasUndefinedVertex(layer) ==
    /\ layer.cls = "Polyline"
    /\ \E i \in DOMAIN layer.latlngs : layer.latlngs[i] = L_latLng(undefined, undefined)

CodecInit ==
    /\ ComponentInit
    /\ ServiceInit
    /\ \/ \E input \in PointFeatures : conversions = <<input>>
       \/ \E input \in LineStringFeatures : conversions = <<input>>
       \/ \E input \in PolygonFeatures : conversions = <<input>>
       \/ \E input \in OtherFeatures : conversions = <<input>>
       \/ \E input \in DrawnMarkers : conversions = <<input>>
       \/ \E input \in DrawnCircles : conversions = <<input>>
       \/ \E input \in DrawnPolylines : conversions = <<input>>
       \/ \E input \in DrawnPolygons : conversions = <<input>>

\* geoJSONToLayer is called with the feature got last
Decode ==
    /\ Len(conversions) <= MaxConversions
    /\ IsFeature(conversions[Len(conversions)])
    /\ conversions' = Append(conversions, geoJSONToLayer(conversions[Len(conversions)]))
    /\ UNCHANGED componentVars
    /\ UNCHANGED serviceVars

\* layerToGeoJSON is called with the layer got last
Encode ==
    /\ Len(conversions) <= MaxConversions
    /\ IsLayer(conversions[Len(conversions)])
    /\ conversions' =
          Append(conversions,
                 IF HasUndefinedVertex(conversions[Len(conversions)])
                 THEN TypeError
                 ELSE layerToGeoJSON(conversions[Len(conversions)]))
    /\ UNCHANGED componentVars
    /\ UNCHANGED serviceVars

CodecNext == Decode \/ Encode

CodecSpec == CodecInit /\ [][CodecNext]_vars

(***************************************************************************)
(* The session synchronizer: the component follows the active project,     *)
(* imports and exports files, and the project service answers its saves.   *)
(***************************************************************************)
\* The records of the imported files and of the project documents, by
\* kind: a marker, a polygon, a line, a record of a geometry type the codec
\* does not know, a record without geometry, and a Point whose geometry has
\* no coordinates
Record(kind) ==
    CASE kind = "marker" -> Feature("Point", Position(P1), [type |-> "marker"])
      [] kind = "polygon" ->
            Feature("Polygon", <<Positions(<<P1, Mid, P2, P1>>)>>,
                    [type |-> "polygon", style |-> [color |-> "#1F75FE"]])
      [] kind = "line" ->
            Feature("LineString", Positions(<<P1, P2>>),
                    [type |-> "polyline", style |-> [color |-> "#660BC2", weight |-> 5]])
      [] kind = "multipolygon" ->
            Feature("MultiPolygon", <<(<<Positions(<<P1, Mid, P2, P1>>)>>)>>, <<>>)
      [] kind = "nogeometry" -> [type |-> "Feature", properties |-> <<>>]
      [] kind = "broken" ->
            [type |-> "Feature", properties |-> <<>>, geometry |-> [type |-> "Point"]]

\* the same records as JSON text
RecordText(kind) ==
    CASE kind = "marker" ->
            "{\"type\":\"Feature\",\"properties\":{\"type\":\"marker\"},\"geometry\":{\"type\":\"Point\",\"coordinates\":[10,50]}}"
      [] kind = "polygon" ->
            "{\"type\":\"Feature\",\"properties\":{\"type\":\"polygon\",\"style\":{\"color\":\"#1F75FE\"}},\"geometry\":{\"type\":\"Polygon\",\"coordinates\":[[[10,50],[9,52],[8,51],[10,50]]]}}"
      [] kind = "line" ->
            "{\"type\":\"Feature\",\"properties\":{\"type\":\"polyline\",\"style\":{\"color\":\"#660BC2\",\"weight\":5}},\"geometry\":{\"type\":\"LineString\",\"coordinates\":[[10,50],[8,51]]}}"
      [] kind = "multipolygon" ->
            "{\"type\":\"Feature\",\"properties\":{},\"geometry\":{\"type\":\"MultiPolygon\",\"coordinates\":[[[[10,50],[9,52],[8,51],[10,50]]]]}}"
      [] kind = "nogeometry" ->
            "{\"type\":\"Feature\",\"properties\":{}}"
      [] kind = "broken" ->
            "{\"type\":\"Feature\",\"properties\":{},\"geometry\":{\"type\":\"Point\"}}"

FeatureCollection(features) == [type |-> "FeatureCollection", features |-> features]

\* the texts of the records of the kinds, separated by commas
RECURSIVE RecordTexts(_)
RecordTexts(kinds) ==
    IF kinds = <<>> THEN ""
    ELSE IF Len(kinds) = 1 THEN RecordText(kinds[1])
    ELSE RecordText(kinds[1]) \o "," \o RecordTexts(Tail(kinds))

\* the text of the FeatureCollection of records of the kinds
CollectionText(kinds) ==
    "{\"type\":\"FeatureCollection\",\"features\":[" \o RecordTexts(kinds) \o "]}"

\* the collections of the files and of the documents, as the kinds of
\* their records
MarkerAndPolygon == <<"marker", "polygon">>

Mixed == <<"multipolygon", "marker", "nogeometry", "line">>

Broken == <<"marker", "broken", "line">>

Collections == {<<>>, MarkerAndPolygon, Mixed, Broken}

\* an object without features
NoFeaturesText == "{\"type\":\"FeatureCollection\"}"

\* a file that was cut off
TruncatedText ==
    "{\"type\":\"FeatureCollection\",\"features\":[" \o RecordText("marker")

\* the texts of the files
ImportTexts ==
    {CollectionText(kinds) : kinds \in Collections} \cup {NoFeaturesText, TruncatedText}

\* the geojson fields of the project documents, written as JSON
DocumentTexts == {CollectionText(kinds) : kinds \in {<<>>, MarkerAndPolygon, Mixed}}

\* the SyntaxError JSON.parse throws
SyntaxError == [type |-> "SyntaxError"]

\* JSON.parse(text), on the texts above
JSON_parse(text) ==
    IF \E kinds \in Collections : text = CollectionText(kinds)
    THEN LET kinds == CHOOSE kinds \in Collections : text = CollectionText(kinds)
         IN  FeatureCollection([i \in DOMAIN kinds |-> Record(kinds[i])])
    ELSE IF text = NoFeaturesText THEN [type |-> "FeatureCollection"]
    ELSE SyntaxError

\* the JSON document of a feature, what JSON.stringify writes of it:
\* undefined in an array is written as null
JSON_feature(feature) ==
    IF "geometry" \notin DOMAIN feature
       \/ "coordinates" \notin DOMAIN feature.geometry
    THEN feature
    ELSE LET coords == feature.geometry.coordinates
             number(x) == IF x = undefined THEN Null ELSE x
             position(pair) == <<number(pair[1]), number(pair[2])>>
         IN  [feature EXCEPT !.geometry.coordinates =
                CASE feature.geometry.type = "Point" -> position(coords)
                  [] feature.geometry.type = "LineString" ->
                        [i \in DOMAIN coords |-> position(coords[i])]
                  [] feature.geometry.type = "Polygon" ->
                        [r \in DOMAIN coords |->
                           [i \in DOMAIN coords[r] |-> position(coords[r][i])]]
                  [] OTHER -> coords]

\* JSON.stringify(geojson), as the document the text holds; JSON.parse of
\* that text gives the same document back
JSON_stringify(geojson) ==
    IF "features" \in DOMAIN geojson
    THEN [geojson EXCEPT !.features =
             [i \in DOMAIN geojson.features |-> JSON_feature(geojson.features[i])]]
    ELSE geojson

\* a MapProject, as far as the component reads it, and the null that
\* activeProject$ emits when there is none
Project(id, geojson) == [id |-> id, geojson |-> geojson]

NullProject == [id |-> Null]

clearMapLayers(c) ==
    LET c1 == [c EXCEPT !.drawnItems = <<>>]
    IN  IF c1.routingControl # NullRef
        THEN [removeControl(c1, c1.routingControl) EXCEPT !.routingControl = NullRef]
        ELSE c1

\* geoJSONToLayer(feature) throws a TypeError: the geometry is of a type the
\* codec converts and has no coordinates, which the codec indexes
\* (coords[1]) or maps (coords.map)
DecodeThrows(feature) ==
    /\ "geometry" \in DOMAIN feature
    /\ feature.geometry.type \in {"Point", "LineString", "Polygon"}
    /\ "coordinates" \notin DOMAIN feature.geometry

\* geojson.features.forEach(...) from feature i on; an exception ends it
RECURSIVE forEachFeature(_, _, _)
forEachFeature(c, features, i) ==
    IF i > Len(features) THEN c
    ELSE IF DecodeThrows(features[i]) THEN [c EXCEPT !.exception = "TypeError"]
    ELSE LET layer == geoJSONToLayer(features[i])
         IN  forEachFeature(IF layer.cls # "null"
                            THEN [c EXCEPT !.drawnItems = Append(@, layer)]
                            ELSE c,   \* console.warn
                            features, i + 1)

\* loadGeoJSONToMap that gives up at the first feature it cannot convert
loadGeoJSONToMap_stopsAtSkip(c, geojson) ==
    IF "features" \notin DOMAIN geojson THEN c
    ELSE LET features == geojson.features
             skipped == {i \in DOMAIN features :
                            \/ "geometry" \notin DOMAIN features[i]
                            \/ features[i].geometry.type
                                  \notin {"Point", "LineString", "Polygon"}}
             last == IF skipped = {} THEN Len(features)
                     ELSE (CHOOSE i \in skipped : \A k \in skipped : i <= k) - 1
         IN  forEachFeature(c, SubSeq(features, 1, last), 1)

loadGeoJSONToMap(c, geojson) ==
    IF "features" \notin DOMAIN geojson THEN c
    ELSE forEachFeature(c, geojson.features, 1)

\* a subscriber of activeProject$ that adds the layers of the project to
\* those the registry holds
onActiveProject_keepsLayers(c, project) ==
    IF project.id # Null
    THEN loadGeoJSONToMap(c, JSON_stringify(project.geojson))
    ELSE c

\* a subscriber of activeProject$ that saves the registry when it has
\* cleared it, before it loads the project
onActiveProject_savesWhenCleared(c, project) ==
    LET c1 == updateGeoJSON(clearMapLayers(c))
    IN  IF project.id # Null
        THEN loadGeoJSONToMap(c1, JSON_stringify(project.geojson))
        ELSE c1

\* drawnItems.getBounds(): the bounds of the points of all layers, <<>>
\* when there is none (isValid() is false).  A circle counts with its
\* center; no document of the model holds one.
getBounds(layers) ==
    LET RECURSIVE points(_)
        points(layer) ==
            CASE layer.cls \in {"Marker", "Circle"} -> {layer.latlngs}
              [] layer.cls = "Polyline" -> Range(layer.latlngs)
              [] layer.cls = "Polygon" ->
                    UNION {Range(layer.latlngs[r]) : r \in DOMAIN layer.latlngs}
              [] OTHER -> UNION {points(layer.layers[i]) : i \in DOMAIN layer.layers}
        all == UNION {points(layers[i]) : i \in DOMAIN layers}
        Min(S) == CHOOSE x \in S : \A y \in S : x <= y
        Max(S) == CHOOSE x \in S : \A y \in S : x >= y
        lats == {q.lat : q \in all}
        lngs == {q.lng : q \in all}
    IN  IF all = {} THEN <<>>
        ELSE [southWest |-> L_latLng(Min(lats), Min(lngs)),
              northEast |-> L_latLng(Max(lats), Max(lngs))]

\* the subscriber of activeProject$
onActiveProject(c, project) ==
    LET c1 == clearMapLayers(c)
    IN  IF project.id # Null
        THEN LET c2 == loadGeoJSONToMap(c1, JSON_stringify(project.geojson))
                 bounds == getBounds(c2.drawnItems)
             IN  [c2 EXCEPT !.viewCalls =
                        Append(@, IF bounds # <<>>
                                  THEN [call |-> "fitBounds", bounds |-> bounds]
                                  ELSE DefaultView)]
        ELSE c1

\* reader.onload that clears the map before it parses the text
readerOnload_clearsFirst(c, text) ==
    LET geojson == JSON_parse(text)
        c0 == clearMapLayers(c)
    IN  IF geojson = SyntaxError THEN c0
        ELSE LET c1 == loadGeoJSONToMap(c0, geojson)
             IN  IF c1.exception # Null
                 THEN [c1 EXCEPT !.exception = Null]
                 ELSE updateGeoJSON(c1)

\* reader.onload of importGeoJSON, with the text of the file
readerOnload(c, text) ==
    LET geojson == JSON_parse(text)
    IN  IF geojson = SyntaxError THEN c   \* caught: 'Invalid GeoJSON file.'
        ELSE LET c1 == loadGeoJSONToMap(clearMapLayers(c), geojson)
             IN  IF c1.exception # Null
                 THEN [c1 EXCEPT !.exception = Null]   \* caught as well
                 ELSE updateGeoJSON(c1)

\* the subscriber of exportGeoJSON: activeProject$ gives it the document of
\* the project that is active, which it downloads as text
exportGeoJSON(c) ==
    IF /\ c.currentUser # Null
       /\ c.activeProjectId # Null
       /\ c.activeProjectId \in DOMAIN c.firestore
    THEN [c EXCEPT !.downloads =
                       Append(@, JSON_stringify(c.firestore[c.activeProjectId]))]
    ELSE c   \* 'No active project or no data to export.'

\* pendingSaves without its i-th call
answered(saves, i) ==
    [k \in 1..(Len(saves) - 1) |-> IF k < i THEN saves[k] ELSE saves[k + 1]]

(***************************************************************************)
(* The project service and the listeners on the documents.  A listener is  *)
(* [by, uid, due, activeId, n]:                                            *)
(*   by        "service" for an onSnapshot of setupProjectsListener, which *)
(*             nothing unsubscribes; "app", "map" and "export" for a       *)
(*             subscription to projects$ of AppComponent.ngOnInit and to   *)
(*             activeProject$ of subscribeToActiveProject and of           *)
(*             exportGeoJSON, whose onSnapshot follows the user who is     *)
(*             signed in (switchMap)                                       *)
(*   uid       the user whose documents it listens to, null for none       *)
(*   due       the storage has a snapshot to give to it                    *)
(*   activeId  what activeProject$ read of _activeProjectId when it was    *)
(*             subscribed to                                               *)
(*   n         the values the subscriber of exportGeoJSON was given,       *)
(*             counted up to two                                           *)
(* A call that waits is [op, id, uid, next, ok]: next is the project that  *)
(* deleteProject selects after the one it deleted, ok whether the storage  *)
(* accepts the write.                                                      *)
(***************************************************************************)
\* the ids that addDoc gives to the documents it makes, in turn
ProjectIds == <<"p1", "p2", "p3", "p4", "p5", "p6", "p7", "p8">>

\* a write to a document of the user has reached the local store: the
\* listeners on the user's documents are due a snapshot
snapshotDue(c, uid) ==
    [c EXCEPT !.listeners =
        [l \in DOMAIN c.listeners |->
            IF c.listeners[l].uid = uid
            THEN [c.listeners[l] EXCEPT !.due = TRUE]
            ELSE c.listeners[l]]]

\* createProject(name), up to its await
createProject(c) ==
    IF c.currentUser = Null
    THEN \* throw new Error(...) before the try block
         [c EXCEPT !.settled = Append(@, Settled("rejected", FALSE))]
    ELSE LET id == ProjectIds[c.created + 1]
             document == [id |-> id, ownerId |-> c.currentUser]
             call == [op |-> "createProject", id |-> id, uid |-> c.currentUser,
                      next |-> Null, ok |-> TRUE]
         IN  snapshotDue([c EXCEPT !.isLoading = TRUE,
                               !.error = Null,
                               !.docs = <<document>> \o @,
                               !.created = @ + 1,
                               !.firestore = (id :> FeatureCollection(<<>>)) @@ @,
                               !.calls = Append(@, call)],
                     c.currentUser)

\* deleteProject and renameProject without the test that the project is in
\* _projects as a project of the user
changeProject_unguarded(c, op, projectId, ok) ==
    IF c.currentUser = Null
    THEN [c EXCEPT !.settled = Append(@, Settled("rejected", FALSE))]
    ELSE LET remainingProjects == SelectSeq(c.projects, LAMBDA p : p.id # projectId)
             call == [op |-> op, id |-> projectId, uid |-> c.currentUser,
                      next |-> IF Len(remainingProjects) > 0
                               THEN remainingProjects[1].id ELSE Null,
                      ok |-> ok]
         IN  [c EXCEPT !.isLoading = TRUE, !.error = Null,
                       !.calls = Append(@, call)]

\* deleteProject(projectId) for op = "deleteProject" and
\* renameProject(projectId, newName) for op = "renameProject", up to the
\* await: both throw before the try block when nobody is signed in and in
\* it when the project is not in _projects as a project of the user
changeProject(c, op, projectId, ok) ==
    IF c.currentUser = Null
    THEN [c EXCEPT !.settled = Append(@, Settled("rejected", FALSE))]
    ELSE LET c1 == [c EXCEPT !.isLoading = TRUE, !.error = Null]
             project == SelectSeq(c.projects, LAMBDA p : p.id = projectId)
             remainingProjects == SelectSeq(c.projects, LAMBDA p : p.id # projectId)
             document == SelectSeq(c.docs, LAMBDA d : d.id = projectId)
             others == SelectSeq(c.docs, LAMBDA d : d.id # projectId)
             call == [op |-> op, id |-> projectId, uid |-> c.currentUser,
                      next |-> IF Len(remainingProjects) > 0
                               THEN remainingProjects[1].id ELSE Null,
                      \* updateDoc fails for a document that is not there
                      ok |-> ok /\ (op = "renameProject" => Len(document) > 0)]
             c2 == [c1 EXCEPT !.calls = Append(@, call)]
         IN  IF Len(project) = 0 \/ project[1].ownerId # c.currentUser
             THEN \* catch and finally
                  [c1 EXCEPT !.error = "Project not found or access denied",
                             !.isLoading = FALSE,
                             !.settled = Append(@, Settled("rejected", FALSE))]
             ELSE IF ~call.ok THEN c2
             ELSE IF op = "deleteProject"
             THEN snapshotDue([c2 EXCEPT !.docs = others,
                                     !.firestore = [k \in DOMAIN @ \ {projectId} |-> @[k]]],
                          c.currentUser)
             ELSE snapshotDue([c2 EXCEPT !.docs = document \o others], c.currentUser)

\* the callback of the listener l is given the projects s
onSnapshot(c, l, s) ==
    LET listener == c.listeners[l]
        found == SelectSeq(s, LAMBDA p : p.id = listener.activeId)
        \* projects.find(p => p.id === activeId) || null
        project == IF Len(found) > 0
                   THEN Project(found[1].id, c.firestore[found[1].id])
                   ELSE NullProject
        given == [c EXCEPT !.listeners[l].n = IF @ < 2 THEN @ + 1 ELSE @]
        \* AppComponent.createFirstProject(): it awaits createProject in a
        \* try block, so that a rejection goes no further
        createFirstProject ==
            [createProject([c EXCEPT !.firstProjectCalls = Append(@, c.currentUser)])
                EXCEPT !.settled = c.settled]
    IN  CASE listener.by = "service" ->
               [c EXCEPT !.projects = s,
                         !.isLoading = FALSE,
                         !.activeProjectId =
                             IF Len(s) > 0 /\ @ = Null THEN s[1].id
                             ELSE IF Len(s) = 0 THEN Null
                             ELSE @]
          [] listener.by = "app" ->
               IF Len(s) = 0 THEN createFirstProject ELSE c
          [] listener.by = "map" ->
               [onActiveProject(c, project) EXCEPT !.shown = project.id]
          [] listener.by = "export" ->
               IF project.id # Null
               THEN [given EXCEPT !.downloads =
                                      Append(@, JSON_stringify(project.geojson))]
               ELSE given   \* 'No active project or no data to export.'

\* the callbacks of the listeners in served, from the l-th on, are given s
RECURSIVE emit(_, _, _, _)
emit(c, served, s, l) ==
    IF l > Len(c.listeners) THEN c
    ELSE IF l \notin served THEN emit(c, served, s, l + 1)
    ELSE \* the set binds what the callback leaves, so that it is worked out once
         CHOOSE r \in {emit(d, served, s, l + 1) : d \in {onSnapshot(c, l, s)}} : TRUE

\* projects$.subscribe and activeProject$.subscribe: activeProject$ reads
\* _activeProjectId once, now; projects$ listens to the documents of the user
\* and gives [] at once when nobody is signed in
subscribe(c, by) ==
    LET c1 == [c EXCEPT !.listeners =
                  Append(@, [by |-> by, uid |-> c.currentUser,
                             due |-> c.currentUser # Null,
                             activeId |-> IF by = "app" THEN Null
                                          ELSE c.activeProjectId,
                             n |-> 0])]
    IN  IF c.currentUser = Null
        THEN emit([c1 EXCEPT !.projects = <<>>], {Len(c1.listeners)}, <<>>, 1)
        ELSE c1

\* updateDoc of the i-th call that waits has written the document: the
\* await returns and the promise of updateActiveProjectGeoJSON is resolved
updateDocResolved(c, i) ==
    LET id == c.pendingSaves[i].id
        document == SelectSeq(c.docs, LAMBDA d : d.id = id)
        c1 == [c EXCEPT !.firestore[id] = c.pendingSaves[i].geojson,
                        !.docs = document \o SelectSeq(@, LAMBDA d : d.id # id),
                        !.pendingSaves = answered(@, i),
                        !.settled = Append(@, Settled("resolved", TRUE))]
    IN  IF Len(document) > 0 THEN snapshotDue(c1, document[1].ownerId) ELSE c1

\* a failed updateDoc that also undoes the mutation: the registry goes back
\* to the document and the tool that is active is put down
updateDocRejected_rollsBack(c, i) ==
    [c EXCEPT !.error = "unavailable",
              !.pendingSaves = answered(@, i),
              !.settled = Append(@, Settled("rejected", FALSE)),
              !.drawnItems = <<>>,
              !.isDeleteMode = FALSE]

\* updateDoc of the i-th call that waits has failed: the catch block sets
\* _error and throws the error again, the promise is rejected
updateDocRejected(c, i) ==
    [c EXCEPT !.error = "unavailable",
              !.pendingSaves = answered(@, i),
              !.settled = Append(@, Settled("rejected", FALSE))]

\* currentUser$ gives null: the subscriber of initializeProjectsListener
\* empties _projects and _activeProjectId, and projects$ gives [] in every
\* subscription to it; the listeners of setupProjectsListener stay
onSignedOut(c) ==
    LET streams == {l \in DOMAIN c.listeners : c.listeners[l].by # "service"}
        c1 == [c EXCEPT !.currentUser = Null,
                        !.projects = <<>>,
                        !.activeProjectId = Null,
                        !.listeners =
                            [l \in DOMAIN c.listeners |->
                                IF l \in streams
                                THEN [c.listeners[l] EXCEPT !.uid = Null, !.due = FALSE]
                                ELSE c.listeners[l]]]
    IN  emit(c1, streams, <<>>, 1)

\* activeProject$ emits a project, or null
ProjectChange(project) ==
    Commit(onActiveProject(This, project), Op("projectChange", project))

\* the FileReader has read the chosen file
ImportGeoJSON(text) ==
    /\ text \in ImportTexts
    /\ Commit(readerOnload(This, text), Op("import", text))

ExportGeoJSON == Commit(exportGeoJSON(This), Op("export", NoArg))

SaveResolved(i) ==
    /\ i \in DOMAIN pendingSaves
    /\ Commit(updateDocResolved(This, i), Op("saveResolved", NoArg))

SaveRejected(i) ==
    /\ i \in DOMAIN pendingSaves
    /\ Commit(updateDocRejected(This, i), Op("saveRejected", NoArg))

SignedOut ==
    /\ currentUser # Null
    /\ Commit(onSignedOut(This), Op("signedOut", NoArg))

(***************************************************************************)
(* The registry in step with the project.  The handlers of the component   *)
(* read nothing of the services but the project that activeProject$ hands  *)
(* them, so the services stay as they are when no project is active and    *)
(* every save call returns at once; the calls are in saveCalls.            *)
(***************************************************************************)
SyncNext ==
    \/ \E mode \in DrawModes : ToggleDrawingMode(mode)
    \/ ToggleEditMode
    \/ ToggleDeleteMode
    \/ Len(sessions) < MaxSyncSessions /\ DrawRoute
    \/ \E latlng \in ClickPoints : MapClick(latlng)
    \/ \E h \in DOMAIN drawHandlers :
          \E layer \in DrawnLayers(drawHandlers[h].type) : Created(h, layer)
    \/ Edited
    \/ \E i \in DOMAIN drawnItems : DeleteLayer(i)
    \/ Deleted
    \/ \E k \in DOMAIN controls : \E routes \in Routes : RoutesFound(k, routes)
    \/ \E k \in DOMAIN controls : RoutingError(k)
    \/ \E text \in DocumentTexts : ProjectChange(Project("p1", JSON_parse(text)))
    \/ ProjectChange(NullProject)
    \/ \E text \in ImportTexts : ImportGeoJSON(text)

SyncSpec == Init /\ [][SyncNext]_vars

(***************************************************************************)
(* Persistence: a user is signed in and the project p1 is active; the      *)
(* component changes its registry by import and by deletion, the project   *)
(* service answers the saves, and the component exports the project.       *)
(***************************************************************************)
PersistInit ==
    /\ ComponentInit
    /\ conversions = <<>>
    /\ currentUser = "u1"
    /\ activeProjectId = "p1"
    /\ firestore = ("p1" :> FeatureCollection(<<>>))
    /\ error = Null
    /\ pendingSaves = <<>>
    /\ settled = <<>>
    /\ downloads = <<>>
    /\ docs = <<[id |-> "p1", ownerId |-> "u1"]>>
    /\ created = 1
    /\ projects = docs
    /\ isLoading = FALSE
    /\ listeners = <<>>
    /\ calls = <<>>
    /\ firstProjectCalls = <<>>
    /\ shown = "p1"

\* another updateDoc call may be made
CanSave == Len(pendingSaves) < MaxPendingSaves

PersistNext ==
    \/ CanSave /\ \E text \in ImportTexts : ImportGeoJSON(text)
    \/ ToggleDeleteMode
    \/ \E i \in DOMAIN drawnItems : DeleteLayer(i)
    \/ CanSave /\ Deleted
    \/ \E i \in DOMAIN pendingSaves : SaveResolved(i)
    \/ \E i \in DOMAIN pendingSaves : SaveRejected(i)
    \/ ExportGeoJSON
    \/ SignedOut

PersistSpec == PersistInit /\ [][PersistNext]_vars

(***************************************************************************)
(* The component from its construction on: the toolbar methods can be      *)
(* called before ngAfterViewInit has made the map and the handlers.        *)
(***************************************************************************)
\* ngAfterViewInit(): initializeMap and setupDrawingHandlers make the map,
\* the feature group and the edit and delete handlers, and
\* subscribeToActiveProject subscribes to activeProject$; the mode fields
\* are not assigned
NgAfterViewInit ==
    /\ map = Null
    /\ Commit(subscribe([This EXCEPT !.map = InitialComponent.map,
                                     !.drawnItems = InitialComponent.drawnItems,
                                     !.editHandler = InitialComponent.editHandler,
                                     !.deleteHandler = InitialComponent.deleteHandler],
                        "map"),
              Op("ngAfterViewInit", NoArg))

EarlyInit ==
    /\ ComponentStartsAs([InitialComponent EXCEPT !.map = Null], "constructor")
    /\ conversions = <<>>
    /\ ServiceInit

EarlyNext ==
    \/ NgAfterViewInit
    \/ \E mode \in DrawModes : ToggleDrawingMode(mode)
    \/ ToggleEditMode
    \/ ToggleDeleteMode

EarlySpec == EarlyInit /\ [][EarlyNext]_vars

(***************************************************************************)
(* The project service with its users.  The storage holds the project p1   *)
(* of the user u1 and no project of the user u2; nobody is signed          *)
(* in and the map component is not initialised.  The users sign in and     *)
(* out, the storage sends snapshots and answers the calls, the projects    *)
(* are created, selected, renamed and deleted, the map component saves its *)
(* registry and exports the project.                                       *)
(***************************************************************************)
\* sign-ins in one behaviour (each leaves a listener of setupProjectsListener)
MaxSignIns == 2
\* documents that addDoc makes in one behaviour, the one of u1 included
MaxProjects == 3
\* createProject, deleteProject and renameProject calls of the user that
\* wait at a time
MaxCalls == 1
\* exportGeoJSON() calls in one behaviour
MaxExports == 1

ProjectsInit ==
    /\ ComponentStartsAs([InitialComponent EXCEPT !.map = Null], "constructor")
    /\ conversions = <<>>
    /\ currentUser = Null
    /\ activeProjectId = Null
    /\ firestore = ("p1" :> FeatureCollection(<<Record("marker")>>))
    /\ error = Null
    /\ pendingSaves = <<>>
    /\ settled = <<>>
    /\ downloads = <<>>
    /\ docs = <<[id |-> "p1", ownerId |-> "u1"]>>
    /\ created = 1
    /\ projects = <<>>
    /\ isLoading = FALSE
    /\ listeners = <<>>
    /\ calls = <<>>
    /\ firstProjectCalls = <<>>
    /\ shown = Null

\* currentUser$ gives the user who has signed in: the subscriber of
\* initializeProjectsListener calls setupProjectsListener, whose listener
\* nothing unsubscribes; projects$ listens to the documents of the user in
\* every subscription to it; and the subscriber of AppComponent.ngOnInit
\* subscribes to projects$ once more
SignedIn(uid) ==
    /\ currentUser = Null
    /\ Cardinality({l \in DOMAIN listeners : listeners[l].by = "service"}) < MaxSignIns
    /\ LET follows(l) == IF l.by = "service" THEN l
                         ELSE [l EXCEPT !.uid = uid, !.due = TRUE]
           listener == [by |-> "service", uid |-> uid, due |-> TRUE,
                        activeId |-> Null, n |-> 0]
           c1 == [This EXCEPT !.currentUser = uid,
                              !.isLoading = TRUE,
                              !.error = Null,
                              !.listeners =
                                  Append([l \in DOMAIN listeners |-> follows(listeners[l])],
                                         listener)]
       IN  Commit(subscribe(c1, "app"), Op("signedIn", uid))

\* the storage sends the documents of the user to the listeners on them
\* that are due a snapshot
Snapshot(uid) ==
    LET served == {l \in DOMAIN listeners : listeners[l].uid = uid /\ listeners[l].due}
        c1 == [This EXCEPT !.listeners =
                  [l \in DOMAIN listeners |->
                      IF l \in served
                      THEN [listeners[l] EXCEPT !.due = FALSE]
                      ELSE listeners[l]]]
    IN  /\ served # {}
        /\ \E c2 \in {emit(c1, served, SelectSeq(docs, LAMBDA d : d.ownerId = uid), 1)} :
              /\ c2.created <= MaxProjects
              /\ Commit(c2, Op("snapshot", uid))

CreateProject ==
    /\ created < MaxProjects
    /\ Len(calls) < MaxCalls
    /\ Commit(createProject(This), Op("createProject", NoArg))

\* selectProject(projectId)
SelectProject(projectId) ==
    Commit(IF \E i \in DOMAIN projects : projects[i].id = projectId
           THEN [This EXCEPT !.activeProjectId = projectId]
           ELSE This,   \* console.warn
           Op("selectProject", projectId))

\* deleteProject(projectId) and renameProject(projectId, newName)
ChangeProject(op, projectId, ok) ==
    /\ Len(calls) < MaxCalls
    /\ Commit(changeProject(This, op, projectId, ok), Op(op, projectId))

\* the storage has answered the i-th call that waits, after it has sent the
\* snapshot of the write: the method goes on after its await and through
\* its finally block
AwaitReturns(i) ==
    LET call == calls[i]
        c1 == [This EXCEPT !.calls = answered(@, i), !.isLoading = FALSE]
        resolved == [c1 EXCEPT !.settled = Append(@, Settled("resolved", TRUE))]
    IN  /\ i \in DOMAIN calls
        /\ ~\E l \in DOMAIN listeners : listeners[l].uid = call.uid /\ listeners[l].due
        /\ Commit(IF ~call.ok
                  THEN [c1 EXCEPT !.error = "unavailable",
                                  !.settled = Append(@, Settled("rejected", FALSE))]
                  ELSE IF call.op = "createProject"
                  THEN [resolved EXCEPT !.activeProjectId = call.id]
                  ELSE IF call.op = "deleteProject" /\ activeProjectId = call.id
                  THEN [resolved EXCEPT !.activeProjectId = call.next]
                  ELSE resolved,
                  Op("awaitReturns", call.op))

\* another client of the owner deletes the document
DeletedElsewhere(projectId) ==
    /\ \E i \in DOMAIN docs : docs[i].id = projectId
    /\ LET document == SelectSeq(docs, LAMBDA d : d.id = projectId)[1]
       IN  Commit(snapshotDue([This EXCEPT
                                  !.docs = SelectSeq(@, LAMBDA d : d.id # projectId),
                                  !.firestore = [k \in DOMAIN @ \ {projectId} |-> @[k]]],
                              document.ownerId),
                  Op("deletedElsewhere", projectId))

\* exportGeoJSON(), which subscribes to activeProject$
ExportCalled ==
    /\ map # Null
    /\ Cardinality({l \in DOMAIN listeners : listeners[l].by = "export"}) < MaxExports
    /\ Commit(subscribe(This, "export"), Op("exportGeoJSON", NoArg))

ProjectsNext ==
    \/ \E uid \in {"u1", "u2"} : SignedIn(uid)
    \/ SignedOut
    \/ \E uid \in {"u1", "u2"} : Snapshot(uid)
    \/ CreateProject
    \/ \E projectId \in {"p1", "p2"} : SelectProject(projectId)
    \/ \E op \in {"deleteProject", "renameProject"}, projectId \in {"p1", "p2"},
          ok \in BOOLEAN :
          ChangeProject(op, projectId, ok)
    \/ \E i \in DOMAIN calls : AwaitReturns(i)
    \/ DeletedElsewhere("p1")

ProjectsSpec == ProjectsInit /\ [][ProjectsNext]_vars

(***************************************************************************)
(* The map component on activeProject$.  The user u1 is signed in, the map  *)
(* component is initialised and subscribes to activeProject$, projects     *)
(* are created and selected, the component saves its registry after an     *)
(* edit and exports the project.                                           *)
(***************************************************************************)
\* documents at a time while the map component is followed
MaxStreamProjects == 2

\* u1 has signed in and the first snapshot has come
StreamInit ==
    /\ ComponentStartsAs([InitialComponent EXCEPT !.map = Null], "constructor")
    /\ conversions = <<>>
    /\ currentUser = "u1"
    /\ activeProjectId = "p1"
    /\ firestore = ("p1" :> FeatureCollection(<<Record("marker")>>))
    /\ error = Null
    /\ pendingSaves = <<>>
    /\ settled = <<>>
    /\ downloads = <<>>
    /\ docs = <<[id |-> "p1", ownerId |-> "u1"]>>
    /\ created = 1
    /\ projects = docs
    /\ isLoading = FALSE
    /\ listeners = <<[by |-> "service", uid |-> "u1", due |-> FALSE,
                      activeId |-> Null, n |-> 0],
                     [by |-> "app", uid |-> "u1", due |-> FALSE,
                      activeId |-> Null, n |-> 0]>>
    /\ calls = <<>>
    /\ firstProjectCalls = <<>>
    /\ shown = Null

StreamNext ==
    \/ Snapshot("u1")
    \/ NgAfterViewInit
    \/ created < MaxStreamProjects /\ CreateProject
    \/ \E projectId \in {"p1", "p2"} : SelectProject(projectId)
    \/ \E i \in DOMAIN calls : AwaitReturns(i)
    \/ ExportCalled
    \/ map # Null /\ ToggleEditMode
    \/ CanSave /\ Edited
    \/ \E i \in DOMAIN pendingSaves : SaveResolved(i)

StreamSpec == StreamInit /\ [][StreamNext]_vars

\* the project service and the subscriber of the map component alone, with
\* the storage at work: a snapshot that is due arrives and a call that
\* waits is answered; nothing obliges the user to act
FollowNext ==
    \/ Snapshot("u1")
    \/ NgAfterViewInit
    \/ created < MaxStreamProjects /\ CreateProject
    \/ \E projectId \in {"p1", "p2"} : SelectProject(projectId)
    \/ \E i \in DOMAIN calls : AwaitReturns(i)
    \/ map # Null /\ ToggleEditMode

FairStreamSpec ==
    /\ StreamInit
    /\ [][FollowNext]_vars
    /\ WF_vars(Snapshot("u1"))
    /\ WF_vars(\E i \in DOMAIN calls : AwaitReturns(i))

(***************************************************************************)
(* Notions the properties share.                                           *)
(***************************************************************************)
\* some clickHandler closure is a click listener of the map
ClickListenerAttached == \E s \in DOMAIN sessions : sessions[s].attached

\* route collection is on: the flag is set and a listener waits for clicks
RouteModeActive == isDrawingRoute /\ ClickListenerAttached

\* no L.Draw.* object is enabled and none is referred to
DrawHandlerReleased ==
    /\ currentDrawHandler = NullRef
    /\ \A h \in DOMAIN drawHandlers : ~drawHandlers[h].enabled

\* the mode controller is in None as far as drawing goes
DrawingNone == activeDrawingMode = Null /\ DrawHandlerReleased

\* the toolbar methods that activate or cancel a mode
ToggleOps == {"toggleDrawingMode", "toggleEditMode", "toggleDeleteMode"}

\* the mode a toggle handler was asked for
AskedMode(op) ==
    CASE op.op = "toggleDrawingMode" -> op.arg
      [] op.op = "toggleEditMode" -> "edit"
      [] op.op = "toggleDeleteMode" -> "delete"
      [] OTHER -> Null

(***************************************************************************)
(* C1.  In every reachable state at most one interaction mode is active:   *)
(* at most one of (activeDrawingMode != null), isEditMode, isDeleteMode    *)
(* and isDrawingRoute with its click listener attached is true.            *)
(* The code does not keep this: toggleDrawingMode, toggleEditMode and      *)
(* toggleDeleteMode never end route collection.                            *)
(***************************************************************************)
C1_AtMostOneModeActive ==
    Cardinality({m \in {"drawing", "edit", "delete", "route"} :
                    \/ m = "drawing" /\ activeDrawingMode # Null
                    \/ m = "edit" /\ isEditMode
                    \/ m = "delete" /\ isDeleteMode
                    \/ m = "route" /\ RouteModeActive}) <= 1

(***************************************************************************)
(* C2.  When a toggle handler is called for mode B while a different mode  *)
(* A is active (A, B over the four drawing modes, edit and delete), it     *)
(* returns with B active and A off: the only enabled draw handler is the   *)
(* one of B that currentDrawHandler refers to (none when B is edit or      *)
(* delete), no other draw handler is referred to, and isEditMode,          *)
(* isDeleteMode and the edit and delete handlers are on exactly when B is  *)
(* that mode.                                                              *)
(***************************************************************************)
C2_Superseded ==
    /\ lastOp.op \in ToggleOps
    /\ lastOp.before # Null
    /\ lastOp.before # AskedMode(lastOp)

C2_SupersedingModeReplacesActiveMode ==
    C2_Superseded =>
        LET B == AskedMode(lastOp)
        IN  /\ ModeOf(activeDrawingMode, isEditMode, isDeleteMode) = B
            /\ activeDrawingMode = (IF B \in DrawModes THEN B ELSE Null)
            /\ isEditMode = (B = "edit")
            /\ isDeleteMode = (B = "delete")
            /\ editHandler.enabled = (B = "edit")
            /\ deleteHandler.enabled = (B = "delete")
            /\ (currentDrawHandler = NullRef) = (B \notin DrawModes)
            /\ \A h \in DOMAIN drawHandlers :
                  /\ h = currentDrawHandler
                  /\ drawHandlers[h].enabled
                  /\ drawHandlers[h].type = B

\* delete was active and a drawing mode was asked for
C2_Witness ==
    /\ C2_Superseded
    /\ lastOp.before = "delete"
    /\ activeDrawingMode = "polygon"
    /\ currentDrawHandler # NullRef

(***************************************************************************)
(* C3.  As stated: after toggleDrawingMode(m) is called twice in a row,    *)
(* from any state, activeDrawingMode and currentDrawHandler are null and   *)
(* no draw handler is enabled.  This fails from a state in which m is      *)
(* already the active mode: the first call cancels m, the second enters it *)
(* again.                                                                  *)
(***************************************************************************)
C3_ToggleTwiceFromAnyState ==
    (lastOp.op = "toggleDrawingMode" /\ lastOp.first # NoArg) => DrawingNone

(***************************************************************************)
(* C3, amended.  After toggleDrawingMode(m) is called twice in a row from  *)
(* a state in which m is not the active mode, activeDrawingMode and        *)
(* currentDrawHandler are null and no draw handler is enabled; from a      *)
(* state in which m is the active mode the two calls leave m active.       *)
(***************************************************************************)
C3_ToggleTwice ==
    /\ (lastOp.op = "toggleDrawingMode" /\ lastOp.first = "inactive") => DrawingNone
    /\ (lastOp.op = "toggleDrawingMode" /\ lastOp.first = "active") =>
          /\ activeDrawingMode = lastOp.arg
          /\ currentDrawHandler \in DOMAIN drawHandlers
          /\ drawHandlers[currentDrawHandler].enabled

\* toggleDrawingMode("circle") was called twice, the first time while circle
\* was not the active mode
C3_Witness ==
    /\ lastOp.op = "toggleDrawingMode"
    /\ lastOp.first = "inactive"
    /\ lastOp.before = lastOp.arg
    /\ lastOp.arg = "circle"
    /\ ~isEditMode
    /\ DrawingNone

(***************************************************************************)
(* C4.  A CREATED event that fires while a drawing mode is active appends  *)
(* the finished layer, one the active mode draws, to drawnItems, calls     *)
(* updateActiveProjectGeoJSON once with the collection built from the new  *)
(* drawnItems, and returns with activeDrawingMode and currentDrawHandler   *)
(* null and no draw handler enabled.                                       *)
(***************************************************************************)
C4_CreatedAddsSavesAndEndsInNone ==
    [][(lastOp'.op = "CREATED" /\ activeDrawingMode # Null) =>
          /\ \E layer \in DrawnLayers(activeDrawingMode) :
                drawnItems' = Append(drawnItems, layer)
          /\ saveCalls' = <<[type |-> "FeatureCollection",
                             features |-> CollectFeatures(drawnItems')]>>
          /\ DrawingNone']_vars

\* a circle was drawn: it is in the registry and in the save
C4_Witness ==
    /\ lastOp.op = "CREATED"
    /\ lastOp.before = "circle"
    /\ Len(drawnItems) = 1
    /\ drawnItems[1].cls = "Circle"
    /\ Len(saveCalls) = 1
    /\ Len(saveCalls[1].features) = 1
    /\ DrawingNone

\* the mode toggles and drawRoute, which end whichever mode is active
ModeOps == ToggleOps \cup {"drawRoute"}

\* an EDITED or DELETED event changes no mode flag and no handler
C5_CompletionKeepsMode ==
    lastOp'.op \in {"EDITED", "DELETED"} =>
        /\ isEditMode' = isEditMode
        /\ isDeleteMode' = isDeleteMode
        /\ editHandler' = editHandler
        /\ deleteHandler' = deleteHandler
        /\ saveCalls' # <<>>

(***************************************************************************)
(* C5.  As stated: an EDITED or DELETED event leaves isEditMode,           *)
(* isDeleteMode and the enabled state of the edit and delete handlers      *)
(* unchanged, and edit (delete) mode, once on, goes off only in a call of  *)
(* toggleEditMode (toggleDeleteMode).  The second half fails: activating   *)
(* another mode ends edit (delete) mode too.                               *)
(***************************************************************************)
C5_OnlyOwnToggleEnds ==
    [][/\ C5_CompletionKeepsMode
       /\ (isEditMode /\ ~isEditMode') => lastOp'.op = "toggleEditMode"
       /\ (isDeleteMode /\ ~isDeleteMode') => lastOp'.op = "toggleDeleteMode"]_vars

(***************************************************************************)
(* C5, amended.  An EDITED or DELETED event leaves isEditMode,             *)
(* isDeleteMode and the enabled state of the edit and delete handlers      *)
(* unchanged; edit (delete) mode, once on, goes off only in a call of      *)
(* toggleEditMode (toggleDeleteMode) or of a method that activates         *)
(* another mode (toggleDrawingMode, toggleDeleteMode (toggleEditMode),     *)
(* drawRoute), and the handler is enabled exactly while its mode is on.    *)
(***************************************************************************)
C5_EditDeletePersist ==
    [][/\ C5_CompletionKeepsMode
       /\ (isEditMode /\ ~isEditMode') => lastOp'.op \in ModeOps
       /\ (isDeleteMode /\ ~isDeleteMode') => lastOp'.op \in ModeOps
       /\ editHandler'.enabled = isEditMode'
       /\ deleteHandler'.enabled = isDeleteMode']_vars

\* EDITED fired and edit mode is still on
C5_Witness ==
    /\ lastOp.op = "EDITED"
    /\ lastOp.before = "edit"
    /\ isEditMode
    /\ editHandler.enabled
    /\ saveCalls # <<>>

(***************************************************************************)
(* C6.  Right after drawRoute() returns no other mode is active            *)
(* (activeDrawingMode is null, isEditMode and isDeleteMode are false, no   *)
(* draw, edit or delete handler is enabled), isDrawingRoute is true, and   *)
(* the clickHandler closure the call created is attached to the map with   *)
(* an empty waypoint list.                                                 *)
(***************************************************************************)
C6_AfterDrawRoute ==
    lastOp.op = "drawRoute" =>
        /\ DrawingNone
        /\ ~isEditMode /\ ~isDeleteMode
        /\ ~editHandler.enabled /\ ~deleteHandler.enabled
        /\ isDrawingRoute
        /\ sessions # <<>>
        /\ sessions[Len(sessions)].attached
        /\ sessions[Len(sessions)].waypoints = <<>>
        /\ sessions[Len(sessions)].tempMarkers = <<>>

\* drawRoute() was called while edit mode was on
C6_Witness ==
    /\ lastOp.op = "drawRoute"
    /\ lastOp.before = "edit"
    /\ isDrawingRoute
    /\ ClickListenerAttached

(***************************************************************************)
(* C7.  For every route session (one clickHandler closure): a click while  *)
(* the session is attached and has no waypoint records the clicked point   *)
(* as its one waypoint, puts one temporary marker on the map and leaves    *)
(* the listener attached; a click while it is attached and has one         *)
(* waypoint detaches its listener, sets isDrawingRoute to false and sends  *)
(* a route request whose waypoints are the first and then the second       *)
(* clicked point; a session that is detached is never changed again.       *)
(***************************************************************************)
C7_TwoClicksMakeOneRequest ==
    [][\A s \in DOMAIN sessions :
          /\ (lastOp'.op = "click" /\ sessions[s].attached
                 /\ Len(sessions[s].waypoints) = 0) =>
                /\ sessions'[s].waypoints = <<lastOp'.arg>>
                /\ Len(sessions'[s].tempMarkers) = 1
                /\ sessions'[s].tempMarkers[1] \in mapMarkers'
                /\ sessions'[s].tempMarkers[1] \notin mapMarkers
                /\ sessions'[s].attached
          /\ (lastOp'.op = "click" /\ sessions[s].attached
                 /\ Len(sessions[s].waypoints) = 1) =>
                /\ ~sessions'[s].attached
                /\ ~isDrawingRoute'
                /\ <<sessions[s].waypoints[1], lastOp'.arg>> \in Range(routeRequests')
                /\ \A i \in DOMAIN routeRequests' : Len(routeRequests'[i]) = 2
          /\ ~sessions[s].attached => sessions'[s] = sessions[s]]_vars

\* P1 and then P2 were clicked: the request is from P1 to P2
C7_Witness ==
    /\ lastOp.op = "click"
    /\ routeRequests = <<(<<P1, P2>>)>>
    /\ ~isDrawingRoute
    /\ ~ClickListenerAttached
    /\ routingControl # NullRef

(***************************************************************************)
(* C8.  A routesfound event that reports a route adds exactly one layer to *)
(* drawnItems, that layer is an L.Polyline tagged with the type route, and *)
(* no temporary waypoint marker is on the map.  The code adds the layer    *)
(* group L.geoJSON returns, which is no L.Polyline.                        *)
(***************************************************************************)
C8_RouteSuccessAddsOneRoutePolyline ==
    [][(lastOp'.op = "routesfound" /\ lastOp'.arg = "route") =>
          /\ Len(drawnItems') = Len(drawnItems) + 1
          /\ SubSeq(drawnItems', 1, Len(drawnItems)) = drawnItems
          /\ InstanceOf(drawnItems'[Len(drawnItems')], "Polyline")
          /\ drawnItems'[Len(drawnItems')].feature = "route"
          /\ mapMarkers' = {}]_vars

\* the coordinates of a returned path as GeoJSON positions
PathPositions(path) == [i \in DOMAIN path |-> <<path[i].lng, path[i].lat>>]

(***************************************************************************)
(* C9.  After a routesfound event that reports a route,                    *)
(* updateActiveProjectGeoJSON has been called with a collection that       *)
(* holds a LineString feature of type route whose coordinates are the      *)
(* returned path as (lng, lat) pairs.  The code saves a collection without *)
(* the route: layerToGeoJSON returns null for the layer group added.       *)
(***************************************************************************)
C9_RouteSuccessSavesRoute ==
    (lastOp.op = "routesfound" /\ lastOp.arg = "route") =>
        /\ saveCalls # <<>>
        /\ \E i \in DOMAIN saveCalls[Len(saveCalls)].features :
              LET f == saveCalls[Len(saveCalls)].features[i]
              IN  /\ f.geometry.type = "LineString"
                  /\ f.properties.type = "route"
                  /\ \E routes \in Routes :
                        /\ Len(routes) > 0
                        /\ f.geometry.coordinates = PathPositions(routes[1])

(***************************************************************************)
(* C10.  A routingerror event adds no layer to drawnItems, makes no save,  *)
(* leaves no routing control on the map and routingControl null, and       *)
(* leaves isDrawingRoute false and no click listener attached.  The last   *)
(* part fails when the error arrives while another clickHandler closure,   *)
(* which drawRoute never detaches, is still attached.                      *)
(***************************************************************************)
C10_RoutingErrorReturnsToIdle ==
    [][lastOp'.op = "routingerror" =>
          /\ drawnItems' = drawnItems
          /\ saveCalls' = <<>>
          /\ routingControl' = NullRef
          /\ \A k \in DOMAIN controls' : ~controls'[k].onMap
          /\ ~isDrawingRoute'
          /\ ~ClickListenerAttached']_vars

(***************************************************************************)
(* C11.  At most one clickHandler closure is a click listener of the map   *)
(* at any time, so that no click is handled by two sessions.  drawRoute()  *)
(* attaches a new closure and never detaches the one of an earlier call.   *)
(***************************************************************************)
C11_AtMostOneClickListener ==
    Cardinality({s \in DOMAIN sessions : sessions[s].attached}) <= 1

(***************************************************************************)
(* C12.  When a drawing mode, edit mode or delete mode is activated while  *)
(* a route session is collecting waypoints (its listener attached, after 0 *)
(* or 1 clicks), the call returns with no click listener attached, no      *)
(* temporary waypoint marker on the map and isDrawingRoute false.  The     *)
(* toggle methods leave all three as they were.                            *)
(***************************************************************************)
C12_AbandonedRouteIsCleanedUp ==
    [][(/\ ClickListenerAttached
        /\ lastOp'.op \in ToggleOps
        /\ lastOp'.before # AskedMode(lastOp')) =>
          /\ ~ClickListenerAttached'
          /\ mapMarkers' = {}
          /\ ~isDrawingRoute']_vars

\* the route request of the current routing control is not answered yet
Resolving == routingControl # NullRef /\ controls[routingControl].pending

(***************************************************************************)
(* C13.  While the route request of the current routing control is         *)
(* pending, drawRoute() is refused: it starts no session, attaches no      *)
(* listener and leaves the routing control alone; toggleDeleteMode() in    *)
(* the same situation does activate delete mode.  drawRoute() has no such  *)
(* guard: it removes the control and starts a second session.              *)
(***************************************************************************)
C13_ResolvingRefusesNewRoute ==
    [][/\ (Resolving /\ lastOp'.op = "drawRoute") =>
             /\ sessions' = sessions
             /\ routingControl' = routingControl
             /\ isDrawingRoute' = isDrawingRoute
       /\ (Resolving /\ lastOp'.op = "toggleDeleteMode" /\ ~isDeleteMode) =>
             /\ isDeleteMode'
             /\ deleteHandler'.enabled]_vars

(***************************************************************************)
(* C14.  layerToGeoJSON returns a feature, never null, for every layer of  *)
(* drawnItems, and every collection updateGeoJSON saves has as many        *)
(* features as drawnItems has layers.  For the layer group that            *)
(* routesfound adds, layerToGeoJSON returns null.                          *)
(***************************************************************************)
C14_EveryLayerConverts ==
    /\ \A i \in DOMAIN drawnItems : layerToGeoJSON(drawnItems[i]).type # "null"
    /\ \A j \in DOMAIN saveCalls : Len(saveCalls[j].features) = Len(drawnItems)

(***************************************************************************)
(* The steps of the codec on its own.                                      *)
(***************************************************************************)
\* i such that conversions[i + 1] is layerToGeoJSON(conversions[i])
EncodeSteps ==
    {i \in 1..(Len(conversions) - 1) : IsLayer(conversions[i])}

\* i such that conversions[i + 1] is geoJSONToLayer(conversions[i])
DecodeSteps ==
    {i \in 1..(Len(conversions) - 1) : IsFeature(conversions[i])}

\* properties.type of a feature, "" when it has none
Subtype(feature) ==
    IF "type" \in DOMAIN feature.properties THEN feature.properties.type ELSE ""

(***************************************************************************)
(* C15.  layerToGeoJSON returns for an L.Marker a Point feature of type    *)
(* marker, for an L.Circle a Point feature of type circle with the         *)
(* circle's radius, for an L.Polyline a LineString feature of type         *)
(* polyline, and for an L.Polygon a Polygon feature of type polygon with   *)
(* one coordinate ring per ring of the layer.  An L.Polygon is an          *)
(* L.Polyline too and is caught by that branch: it comes out as a          *)
(* LineString of type polyline.                                            *)
(***************************************************************************)
C15_EachVariantHasItsShape ==
    \A i \in EncodeSteps :
        LET layer == conversions[i]
            f == conversions[i + 1]
        IN  /\ f.type = "Feature"
            /\ layer.cls = "Marker" =>
                  f.geometry.type = "Point" /\ f.properties.type = "marker"
            /\ layer.cls = "Circle" =>
                  /\ f.geometry.type = "Point"
                  /\ f.properties.type = "circle"
                  /\ f.properties.radius = layer.radius
            /\ layer.cls = "Polyline" =>
                  f.geometry.type = "LineString" /\ f.properties.type = "polyline"
            /\ layer.cls = "Polygon" =>
                  /\ f.geometry.type = "Polygon"
                  /\ f.properties.type = "polygon"
                  /\ Len(f.geometry.coordinates) = Len(layer.latlngs)

\* the features of the round-trip law: a marker, a circle with a radius
\* that is not 0, a line, a polygon
Supported(feature) ==
    /\ "geometry" \in DOMAIN feature
    /\ \/ feature.geometry.type \in {"LineString", "Polygon"}
       \/ feature.geometry.type = "Point" /\ Subtype(feature) = "marker"
       \/ /\ feature.geometry.type = "Point"
          /\ Subtype(feature) = "circle"
          /\ HasRadius(feature.properties)

\* every style property of feature f is a style property of g, with its value
SameStyle(f, g) ==
    "style" \in DOMAIN f.properties =>
        /\ "style" \in DOMAIN g.properties
        /\ \A k \in DOMAIN f.properties.style :
              /\ k \in DOMAIN g.properties.style
              /\ g.properties.style[k] = f.properties.style[k]

(***************************************************************************)
(* C16.  For every supported feature r (a Point of type marker, a Point of *)
(* type circle with a radius, a LineString, a Polygon),                    *)
(* layerToGeoJSON(geoJSONToLayer(r)) has the geometry type, the            *)
(* coordinates, the radius and the style properties of r.  A Polygon       *)
(* comes back as a LineString whose positions are undefined.               *)
(***************************************************************************)
C16_FeatureRoundTrip ==
    \A i \in DecodeSteps :
        (Supported(conversions[i]) /\ i + 2 <= Len(conversions)) =>
            LET r == conversions[i]
                back == conversions[i + 2]
            IN  /\ IsFeature(back)
                /\ back.geometry.type = r.geometry.type
                /\ back.geometry.coordinates = r.geometry.coordinates
                /\ Subtype(r) = "circle" =>
                      /\ "radius" \in DOMAIN back.properties
                      /\ back.properties.radius = r.properties.radius
                /\ SameStyle(r, back)

(***************************************************************************)
(* C17.  For every feature r of type marker, circle (with a radius),       *)
(* polyline, polygon or route, layerToGeoJSON(geoJSONToLayer(r)) has the   *)
(* type of r, and the icon fields of r when r is a marker that has them;   *)
(* a Point of another type comes back as a marker.  A route comes back as  *)
(* a polyline, because geoJSONToLayer makes a plain L.Polyline of every    *)
(* LineString, and so does a polygon.                                      *)
(***************************************************************************)
C17_SubtypeAndIconRoundTrip ==
    \A i \in DecodeSteps :
        (i + 2 <= Len(conversions) /\ IsFeature(conversions[i + 2])) =>
            LET r == conversions[i]
                back == conversions[i + 2]
            IN  /\ (\/ Subtype(r) \in {"marker", "polyline", "polygon", "route"}
                    \/ Subtype(r) = "circle" /\ HasRadius(r.properties)) =>
                      Subtype(back) = Subtype(r)
                /\ Subtype(r) = "marker" =>
                      \A k \in {"iconUrl", "iconSize", "iconAnchor"} :
                          HasIconField(r.properties, k) =>
                              back.properties[k] = r.properties[k]
                /\ (r.geometry.type = "Point" /\ Subtype(r) \notin {"marker", "circle"}) =>
                      Subtype(back) = "marker"

(***************************************************************************)
(* C18.  For every layer o a draw handler makes (marker, circle, polyline, *)
(* polygon), geoJSONToLayer(layerToGeoJSON(o)) is a layer of the class of  *)
(* o with the coordinates of o.  A polygon comes back as an L.Polyline     *)
(* whose one vertex is undefined.                                          *)
(***************************************************************************)
C18_LayerRoundTrip ==
    (Len(conversions) >= 3 /\ IsLayer(conversions[1])) =>
        /\ IsLayer(conversions[3])
        /\ conversions[3].cls = conversions[1].cls
        /\ conversions[3].latlngs = conversions[1].latlngs

\* the route paths written by the routesfound listener are [lng, lat] pairs
RoutePathsSwapped ==
    \A routes \in Routes : \A n \in DOMAIN routes :
        LET written == routeFeature(routes[n]).geometry.coordinates
        IN  /\ Len(written) = Len(routes[n])
            /\ \A i \in DOMAIN written :
                  written[i] = <<routes[n][i].lng, routes[n][i].lat>>

(***************************************************************************)
(* C19.  Every conversion swaps every pair: geoJSONToLayer reads [x, y]    *)
(* as (lat = y, lng = x) and layerToGeoJSON writes (lat, lng) as           *)
(* [lng, lat], for a Point, for every vertex of a LineString and for every *)
(* vertex of every ring of a Polygon; the route path of                    *)
(* createRoutingControl is written as [lng, lat] too.  layerToGeoJSON      *)
(* writes no vertex of an L.Polygon: it writes one pair of undefined per   *)
(* ring.                                                                   *)
(***************************************************************************)
C19_EveryPairSwapped ==
    /\ RoutePathsSwapped
    /\ \A i \in DecodeSteps :
          LET f == conversions[i]
              layer == conversions[i + 1]
              xy == f.geometry.coordinates
          IN  IsLayer(layer) =>
                CASE f.geometry.type = "Point" ->
                        layer.latlngs = [lat |-> xy[2], lng |-> xy[1]]
                  [] f.geometry.type = "LineString" ->
                        /\ Len(layer.latlngs) = Len(xy)
                        /\ \A v \in DOMAIN xy :
                              layer.latlngs[v] = [lat |-> xy[v][2], lng |-> xy[v][1]]
                  [] OTHER ->
                        /\ Len(layer.latlngs) = Len(xy)
                        /\ \A r \in DOMAIN xy : \A v \in DOMAIN layer.latlngs[r] :
                              layer.latlngs[r][v] = [lat |-> xy[r][v][2], lng |-> xy[r][v][1]]
    /\ \A i \in EncodeSteps :
          LET layer == conversions[i]
              f == conversions[i + 1]
          IN  /\ IsFeature(f)
              /\ CASE layer.cls \in {"Marker", "Circle"} ->
                        f.geometry.coordinates = <<layer.latlngs.lng, layer.latlngs.lat>>
                  [] layer.cls = "Polyline" ->
                        /\ Len(f.geometry.coordinates) = Len(layer.latlngs)
                        /\ \A v \in DOMAIN layer.latlngs :
                              f.geometry.coordinates[v] =
                                  <<layer.latlngs[v].lng, layer.latlngs[v].lat>>
                  [] OTHER ->
                        /\ Len(f.geometry.coordinates) = Len(layer.latlngs)
                        /\ \A r \in DOMAIN layer.latlngs :
                              /\ Len(f.geometry.coordinates[r]) = Len(layer.latlngs[r])
                              /\ \A v \in DOMAIN layer.latlngs[r] :
                                    f.geometry.coordinates[r][v] =
                                        <<layer.latlngs[r][v].lng, layer.latlngs[r][v].lat>>

(***************************************************************************)
(* C20.  geoJSONToLayer of a Point feature: type marker gives an L.Marker  *)
(* with the stored icon URL or the built-in one; type circle with a        *)
(* numeric radius, 0 included, gives an L.Circle of that radius; no type   *)
(* or another type gives an L.Marker with the default icon; the result is  *)
(* never null.  A circle of radius 0 gives a default L.Marker: the radius  *)
(* is tested for truthiness.                                               *)
(***************************************************************************)
C20_PointDispatch ==
    \A i \in DecodeSteps :
        ("geometry" \in DOMAIN conversions[i]
            /\ conversions[i].geometry.type = "Point") =>
            LET f == conversions[i]
                layer == conversions[i + 1]
            IN  /\ IsLayer(layer)
                /\ Subtype(f) = "marker" =>
                      /\ layer.cls = "Marker"
                      /\ layer.options.icon.iconUrl =
                            (IF HasIconField(f.properties, "iconUrl")
                             THEN f.properties.iconUrl ELSE DefaultIconUrl)
                /\ (Subtype(f) = "circle" /\ "radius" \in DOMAIN f.properties) =>
                      /\ layer.cls = "Circle"
                      /\ layer.radius = f.properties.radius
                /\ Subtype(f) \notin {"marker", "circle"} =>
                      /\ layer.cls = "Marker"
                      /\ layer.options.icon = IconDefault

(***************************************************************************)
(* Notions of the claims on loading, import and saving.                    *)
(***************************************************************************)
\* the handler that ran last loaded a collection: an import, or a project
\* change that carried a project
LoadOp(op) ==
    \/ op.op = "import"
    \/ op.op = "projectChange" /\ op.arg.id # Null

\* the collection it was given
LoadedCollection(op) ==
    IF op.op = "import" THEN JSON_parse(op.arg) ELSE op.arg.geojson

\* a record of a geometry kind the codec converts
IsSupported(feature) ==
    /\ "geometry" \in DOMAIN feature
    /\ feature.geometry.type \in {"Point", "LineString", "Polygon"}

\* every record of the collection is a valid GeoJSON feature or has no
\* geometry
WellFormed(geojson) ==
    /\ "features" \in DOMAIN geojson
    /\ \A i \in DOMAIN geojson.features : ~DecodeThrows(geojson.features[i])

\* the registry holds the objects of the records, one for one and in order
HoldsDecoded(layers, records) ==
    /\ Len(layers) = Len(records)
    /\ \A i \in DOMAIN records : layers[i] = geoJSONToLayer(records[i])

(***************************************************************************)
(* C21.  After a handler has loaded a collection of valid records, some of *)
(* them of an unsupported geometry kind (MultiPolygon) or without          *)
(* geometry, exactly those records are skipped: the load went through the  *)
(* whole collection, and the registry holds one object for every supported *)
(* record, the decoded record, in the order of the collection.             *)
(***************************************************************************)
C21_LoadSkipsUnsupportedRecords ==
    (LoadOp(lastOp) /\ WellFormed(LoadedCollection(lastOp))) =>
        HoldsDecoded(drawnItems,
                     SelectSeq(LoadedCollection(lastOp).features, IsSupported))

\* the mixed collection has been loaded: the MultiPolygon record and the
\* record without geometry are skipped, the marker and the line are there
C21_Witness ==
    /\ LoadOp(lastOp)
    /\ LoadedCollection(lastOp) = JSON_parse(CollectionText(Mixed))
    /\ Len(drawnItems) = 2
    /\ drawnItems[1].cls = "Marker"
    /\ drawnItems[2].cls = "Polyline"

(***************************************************************************)
(* C22.  An import of a text that is not parsable JSON leaves the registry *)
(* as it was before (the same layers in the same order), leaves            *)
(* routingControl and the control it refers to as they were, and calls     *)
(* updateActiveProjectGeoJSON not at all.                                  *)
(***************************************************************************)
C22_UnparsableImportChangesNothing ==
    [][(lastOp'.op = "import" /\ JSON_parse(lastOp'.arg) = SyntaxError) =>
          /\ drawnItems' = drawnItems
          /\ routingControl' = routingControl
          /\ controls' = controls
          /\ saveCalls' = <<>>]_vars

\* a file that was cut off has been imported while the registry held a
\* layer and a routing control was on the map
C22_Witness ==
    /\ lastOp.op = "import"
    /\ lastOp.arg = TruncatedText
    /\ Len(drawnItems) > 0
    /\ routingControl # NullRef
    /\ controls[routingControl].onMap

(***************************************************************************)
(* C23.  An import of a text that parses to an object without a features   *)
(* member removes no layer from the registry and asks for no write of the  *)
(* document of the active project.                                         *)
(* The code does not keep this: reader.onload clears the map before        *)
(* loadGeoJSONToMap looks for the features, and then saves the empty       *)
(* registry.                                                               *)
(***************************************************************************)
C23_ImportWithoutFeaturesChangesNothing ==
    [][(lastOp'.op = "import" /\ lastOp'.arg = NoFeaturesText) =>
          /\ drawnItems' = drawnItems
          /\ saveCalls' = <<>>
          /\ pendingSaves' = pendingSaves]_vars

(***************************************************************************)
(* C24.  An import whose load throws at a record, after earlier records of *)
(* the file were loaded, leaves no partial state: the registry after the   *)
(* import is the registry before it.                                       *)
(* The code does not keep this: the map is cleared before the load and the *)
(* catch block restores nothing, so the registry holds the layers of the   *)
(* records before the one that threw.                                      *)
(***************************************************************************)
C24_FailedImportLeavesNoPartialState ==
    [][(/\ lastOp'.op = "import"
        /\ JSON_parse(lastOp'.arg) # SyntaxError
        /\ "features" \in DOMAIN JSON_parse(lastOp'.arg)
        /\ ~WellFormed(JSON_parse(lastOp'.arg))) =>
          drawnItems' = drawnItems]_vars

(***************************************************************************)
(* C25.  An import of a valid FeatureCollection of a marker Point and a    *)
(* Polygon leaves one object per feature in the registry, and an export    *)
(* made after it (the save of the import has been written, the registry is *)
(* still the imported one) downloads a collection equivalent to the        *)
(* imported one: the same geometry types and coordinates, in any order.    *)
(* The code does not keep the second part: the polygon of the registry is  *)
(* saved, and so exported, as a LineString.                                *)
(***************************************************************************)
C25_ImportThenExportIsEquivalent ==
    LET imported == JSON_parse(CollectionText(MarkerAndPolygon)).features
        SameGeometry(f, g) ==
            /\ f.geometry.type = g.geometry.type
            /\ f.geometry.coordinates = g.geometry.coordinates
        Equivalent(fs, gs) ==
            /\ Len(fs) = Len(gs)
            /\ \E p \in Permutations(DOMAIN fs) :
                  \A i \in DOMAIN fs : SameGeometry(fs[i], gs[p[i]])
    IN  /\ (lastOp.op = "import" /\ lastOp.arg = CollectionText(MarkerAndPolygon)) =>
              HoldsDecoded(drawnItems, imported)
        /\ (/\ lastOp.op = "export"
            /\ activeProjectId # Null
            /\ pendingSaves = <<>>
            /\ HoldsDecoded(drawnItems, imported)
            /\ firestore[activeProjectId].features = CollectFeatures(drawnItems)) =>
              /\ Len(downloads) = 1
              /\ Equivalent(downloads[1].features, imported)

(***************************************************************************)
(* C26.  Every local mutation (CREATED, EDITED, DELETED, a route that was  *)
(* found, an import that succeeded) makes exactly one save call, and the   *)
(* payload of the call is the encoding of the whole registry as the        *)
(* mutation leaves it: one record for every object, in order.              *)
(* The code does not keep this after a route was found: the route layer    *)
(* has no record in the payload.                                           *)
(***************************************************************************)
C26_MutationSavesWholeRegistry ==
    [][(\/ lastOp'.op \in {"CREATED", "EDITED", "DELETED"}
        \/ lastOp'.op = "routesfound" /\ lastOp'.arg = "route"
        \/ /\ lastOp'.op = "import"
           /\ JSON_parse(lastOp'.arg) # SyntaxError
           /\ WellFormed(JSON_parse(lastOp'.arg))) =>
          saveCalls' = <<FeatureCollection(
                           [i \in DOMAIN drawnItems' |-> layerToGeoJSON(drawnItems'[i])])>>]_vars

(***************************************************************************)
(* C27.  When a save call is rejected, the layer registry and the          *)
(* interaction mode stay as they are: nothing is rolled back and no object *)
(* is removed.                                                             *)
(***************************************************************************)
C27_RejectedSaveRollsNothingBack ==
    [][lastOp'.op = "saveRejected" =>
          UNCHANGED <<drawnItems, activeDrawingMode, isEditMode, isDeleteMode,
                      isDrawingRoute, drawHandlers, editHandler, deleteHandler>>]_vars

C27_Witness ==
    /\ lastOp.op = "saveRejected"
    /\ settled # <<>>
    /\ settled[1].outcome = "rejected"
    /\ Len(drawnItems) > 0
    /\ isDeleteMode

(***************************************************************************)
(* C28.  A save that fails reaches the caller of the mutating operation:   *)
(* every call of updateActiveProjectGeoJSON that was rejected, or that     *)
(* returned without writing because no project is active, is one whose     *)
(* outcome the component operation that made it observes.                  *)
(* The code does not keep this: updateGeoJSON drops the promise.           *)
(***************************************************************************)
C28_FailedSaveReachesCaller ==
    \A i \in DOMAIN settled :
        (settled[i].outcome = "rejected" \/ ~settled[i].written) =>
            settled[i].observed

(***************************************************************************)
(* C29.  After a change of the active project has been handled, the        *)
(* registry holds the objects of the supported records of the new project, *)
(* one for one and in order, and nothing of what it held before; it is     *)
(* empty when the project has no records and when the event carries null.  *)
(***************************************************************************)
C29_ProjectChangeReplacesRegistry ==
    lastOp.op = "projectChange" =>
        IF lastOp.arg.id = Null
        THEN drawnItems = <<>>
        ELSE /\ HoldsDecoded(drawnItems,
                             SelectSeq(lastOp.arg.geojson.features, IsSupported))
             /\ lastOp.arg.geojson.features = <<>> => drawnItems = <<>>

C29_Witness ==
    /\ lastOp.op = "projectChange"
    /\ lastOp.arg.id # Null
    /\ lastOp.arg.geojson = JSON_parse(CollectionText(MarkerAndPolygon))
    /\ Len(drawnItems) = 2
    /\ drawnItems[1].cls = "Marker"
    /\ drawnItems[2].cls = "Polygon"

(***************************************************************************)
(* C30.  The handling of a project change is atomic with respect to saves: *)
(* whenever a save can fire, the registry of the last project change is    *)
(* cleared and loaded in full, and the payload of every save is built from *)
(* the registry as the handler that saves leaves it, never from a registry *)
(* that was cleared and is not loaded yet.                                 *)
(***************************************************************************)
C30_ProjectChangeAtomicForSaves ==
    /\ \A i \in DOMAIN saveCalls :
          saveCalls[i] = FeatureCollection(CollectFeatures(drawnItems))
    /\ (lastOp.op = "projectChange" /\ lastOp.arg.id # Null) =>
          Len(drawnItems) = Len(SelectSeq(lastOp.arg.geojson.features, IsSupported))

C30_Witness ==
    /\ lastOp.op = "projectChange"
    /\ lastOp.arg.id # Null
    /\ Len(drawnItems) = 2
    /\ saveCalls = <<>>
    /\ \E k \in DOMAIN controls : controls[k].pending

(***************************************************************************)
(* C35.  A route result that arrives when its routing control was taken    *)
(* off the map (the active project changed, an import cleared the map, or  *)
(* drawRoute() was called again) adds no layer to the registry and makes   *)
(* no save.                                                                *)
(* The code does not keep this: the routesfound listener asks nothing      *)
(* about its control and adds the route to the registry it finds.          *)
(***************************************************************************)
C35_LateRouteResultIsDropped ==
    [][(/\ lastOp'.op = "routesfound"
        /\ \E k \in DOMAIN controls :
              /\ controls[k].pending
              /\ ~controls[k].onMap
              /\ (k \in DOMAIN controls' => ~controls'[k].pending)) =>
          /\ drawnItems' = drawnItems
          /\ saveCalls' = <<>>]_vars

(***************************************************************************)
(* C31.  When a change of the active project is handled, the viewport is   *)
(* fitted to the bounds of the registry when the registry holds a layer,   *)
(* and it is reset to the default view (center 51.505, -0.09, zoom 13)     *)
(* when the registry is empty, also when the event carries no project.     *)
(* The code does not keep the last part: for null the subscriber leaves    *)
(* the viewport where it is.                                               *)
(***************************************************************************)
C31_ProjectChangeSetsViewport ==
    lastOp.op = "projectChange" =>
        /\ Len(viewCalls) = 1
        /\ viewCalls[1] = IF Len(drawnItems) > 0
                          THEN [call |-> "fitBounds", bounds |-> getBounds(drawnItems)]
                          ELSE DefaultView

(***************************************************************************)
(* C32.  A mode activation that fails because the map and the handlers do  *)
(* not exist yet leaves the controller in None: as long as there is no     *)
(* map, activeDrawingMode is null and isEditMode and isDeleteMode are      *)
(* false, so that no flag is set for a tool that was never enabled.        *)
(* The code does not keep this: each method sets its flag before the       *)
(* statement that throws.                                                  *)
(***************************************************************************)
C32_FailedActivationLeavesNone ==
    map = Null =>
        /\ activeDrawingMode = Null
        /\ ~isEditMode
        /\ ~isDeleteMode

(***************************************************************************)
(* C37.  After every snapshot callback and after every completed           *)
(* createProject, selectProject and deleteProject, _activeProjectId is     *)
(* null or the id of a project in _projects: it does not stay pointing at  *)
(* a project that a snapshot no longer contains.  The code does not keep   *)
(* this: the snapshot callback leaves the active id alone when the list    *)
(* is not empty.                                                           *)
(***************************************************************************)
C37_ActiveIdIsListed ==
    (\/ lastOp.op \in {"snapshot", "selectProject"}
     \/ /\ lastOp.op = "awaitReturns"
        /\ lastOp.arg \in {"createProject", "deleteProject"}) =>
        \/ activeProjectId = Null
        \/ \E i \in DOMAIN projects : projects[i].id = activeProjectId

(***************************************************************************)
(* C38.  deleteProject and renameProject send a write to the storage only  *)
(* when a user is signed in and the project is in _projects with that      *)
(* user as its owner, and then they do send one; otherwise they throw,     *)
(* send nothing and leave _activeProjectId as it is.  _isLoading is false  *)
(* when either of them has finished, whether it succeeded or failed,       *)
(* provided that a user was signed in when it was called.                  *)
(***************************************************************************)
C38_ChangeProjectIsGuarded ==
    [][/\ lastOp'.op \in {"deleteProject", "renameProject"} =>
            LET allowed == /\ currentUser # Null
                           /\ \E i \in DOMAIN projects :
                                 /\ projects[i].id = lastOp'.arg
                                 /\ projects[i].ownerId = currentUser
            IN  /\ (docs' # docs \/ calls' # calls) => allowed
                /\ allowed => calls' # calls
                /\ ~allowed =>
                      /\ settled' = <<Settled("rejected", FALSE)>>
                      /\ docs' = docs
                      /\ calls' = calls
                      /\ activeProjectId' = activeProjectId
                      /\ (currentUser # Null => ~isLoading')
       /\ (/\ lastOp'.op = "awaitReturns"
           /\ lastOp'.arg \in {"deleteProject", "renameProject"}) => ~isLoading'
      ]_vars

\* a user is signed in and deleteProject or renameProject has refused a
\* project that is not the user's in _projects
C38_Witness ==
    /\ lastOp.op \in {"deleteProject", "renameProject"}
    /\ currentUser # Null
    /\ ~\E i \in DOMAIN projects : projects[i].id = lastOp.arg
    /\ Len(projects) > 0
    /\ settled = <<Settled("rejected", FALSE)>>
    /\ error = "Project not found or access denied"
    /\ ~isLoading

\* C38 as the specification states it: _isLoading is false after
\* deleteProject and renameProject have finished, whatever their outcome;
\* refuted by a call made while nobody is signed in
C38_LoadingEndsWithOperation ==
    [][(\/ /\ lastOp'.op \in {"deleteProject", "renameProject"}
           /\ calls' = calls
        \/ /\ lastOp'.op = "awaitReturns"
           /\ lastOp'.arg \in {"deleteProject", "renameProject"}) => ~isLoading'
      ]_vars

(***************************************************************************)
(* C39.  'My First Project' is created at most once for a signed-in user   *)
(* who has no project: no handler calls createFirstProject for a user more *)
(* than once, and none calls it while a project of the user exists or the  *)
(* creation of one is waiting for the storage.  The code does not keep     *)
(* this: every sign-in adds a subscription to projects$ that is never      *)
(* ended, and each of them calls createFirstProject for the same empty     *)
(* list.                                                                   *)
(***************************************************************************)
C39_FirstProjectCreatedOnce ==
    [][LET made == SelectSeq(firstProjectCalls', LAMBDA uid : uid # Null)
       IN  made # <<>> =>
              /\ Len(made) = 1
              /\ ~\E i \in DOMAIN calls :
                    calls[i].op = "createProject" /\ calls[i].uid = made[1]
              /\ ~\E i \in DOMAIN docs : docs[i].ownerId = made[1]
      ]_vars

(***************************************************************************)
(* C40.  While nobody is signed in _projects is empty and                  *)
(* _activeProjectId is null, and while a user is signed in _projects       *)
(* holds projects of that user only: no snapshot callback that was         *)
(* registered for another user fills it.  The code does not keep this:     *)
(* nothing unsubscribes the listeners of setupProjectsListener, and a call *)
(* that waits for the storage goes on after the user has signed out.       *)
(***************************************************************************)
C40_ProjectsOfCurrentUserOnly ==
    /\ currentUser = Null => projects = <<>> /\ activeProjectId = Null
    /\ \A i \in DOMAIN projects : projects[i].ownerId = currentUser

(***************************************************************************)
(* C33.  A save never writes into a project the geometry that was loaded   *)
(* from another one: whenever updateGeoJSON hands the registry to the      *)
(* project service, the project that is active at that moment, which the   *)
(* save is written to, is the project that activeProject$ gave last to     *)
(* the subscriber of the map component, if it gave one.  The code does not *)
(* keep this:                                                              *)
(* activeProject$ reads _activeProjectId when it is subscribed to only,    *)
(* so that a change of the active project clears and reloads nothing.      *)
(***************************************************************************)
C33_SaveGoesToShownProject ==
    [][(saveCalls' # <<>> /\ shown # Null) => activeProjectId = shown]_vars

(***************************************************************************)
(* C36.  A call of exportGeoJSON() makes at most one download or one       *)
(* 'nothing to export' notice: the subscriber it gives to activeProject$   *)
(* is given at most one value, and what activeProject$ emits later, such   *)
(* as the snapshot after a save, reaches it no more.  The code does not    *)
(* keep this: the subscription is never ended.                             *)
(***************************************************************************)
C36_ExportDownloadsOnce ==
    \A l \in DOMAIN listeners : listeners[l].by = "export" => listeners[l].n <= 1

(***************************************************************************)
(* C34.  Once the map component has subscribed to activeProject$, a        *)
(* project that has become the active one (by selectProject, by            *)
(* createProject or by the auto-selection of a snapshot) is eventually     *)
(* what activeProject$ gave last to the subscriber, unless another         *)
(* project becomes active first.  The code does not keep this:             *)
(* activeProject$ never emits for a change of _activeProjectId.            *)
(***************************************************************************)
C34_StreamFollowsActiveProject ==
    \A projectId \in {"p1", "p2"} :
        (map # Null /\ activeProjectId = projectId)
            ~> (shown = projectId \/ activeProjectId # projectId)

====
